---- MODULE Spec2Model ----
(***************************************************************************)
(* Model of the FAISS-backed vector store of the matching engine           *)
(* (ia-services/matching-engine/src/faiss_store.py) and of the callers     *)
(* that delete through it (matching_service.py, api/signals.py).           *)
(*                                                                         *)
(* Strings are sequences of one-character strings, so that the             *)
(* "<index_name>:<doc_id>" key format and its prefix test are computed.    *)
(* Vectors are integer tuples whose Euclidean norm is an integer; a        *)
(* normalised vector is kept in fixed point with 5 units for 1.0, so a     *)
(* score (inner product) is kept in units of 1/25.                         *)
(* A slot k of the FAISS index is position k+1 of the sequence index.     *)
(* Every stored vector carries two ghost fields: by, the full ID it was    *)
(* upserted under, and coll, the index_name of that upsert.  No operation  *)
(* reads them.                                                             *)
(***************************************************************************)
EXTENDS Integers, Sequences, FiniteSets, TLC

VARIABLES
    index,        \* self.index: the vectors of the flat index, in slot order
    id_to_index,  \* self.id_to_index: dict full ID -> slot
    index_to_id,  \* self.index_to_id: dict slot -> full ID
    alive,        \* the process holding the in-memory store is running
    diskIndex,    \* the index file at index_path
    diskMap,      \* the mapping file beside it
    faults,       \* number of failed or interrupted file writes so far
    last,         \* history: the last call made and how it ended
    th,           \* the threads calling the store concurrently, and their locals
    begun,        \* history: the store and the files when the first thread began
    svc,          \* history: the last call of MatchingService or LLMAgentService,
                  \* what it returned and which collaborators it called
    memory,       \* AgentMemory._sessions: the turns of each session
    job_offers_store,
                  \* the in-memory store of job offers: a second
                  \* FAISSVectorStore, on files of its own; the variables
                  \* index, id_to_index, index_to_id are the candidates store
    instances     \* the MatchingService objects that signal receivers and
                  \* view sets build on the same candidates files: for each,
                  \* where it is and its own in-memory store

vars == <<index, id_to_index, index_to_id, alive, diskIndex, diskMap, faults,
          last, th, begun, svc, memory, job_offers_store, instances>>

\* the variables of the services above the store
svcVars == <<svc, memory, job_offers_store>>

----------------------------------------------------------------------------
(* Bounds and input sets *)

\* largest number of vectors the index is let grow to
MaxSlots == 3

\* largest number of file writes that fail or are interrupted in one run
MaxFaults == 1

\* dimension of the index (constructor parameter)
dimension == 2

IndexNames == {<<"j">>}

DocIds == {<<"a">>, <<"b">>, <<"c">>}

\* input vectors of the index dimension: two directions, norms 5 and 10
Vectors == {<<3, 4>>, <<8, 6>>}

\* an input vector of another dimension
WrongVectors == {<<5>>}

\* the embeddings an entity is indexed with: "a" changes its text between
\* two upserts, "b" and "c" keep theirs
EmbeddingsOf(doc_id) ==
    IF doc_id = <<"a">> THEN Vectors
    ELSE IF doc_id = <<"b">> THEN {<<3, 4>>} ELSE {<<8, 6>>}

SeqsUpTo(S, n) == UNION {[1..m -> S] : m \in 0..n}

\* ids lists of up to two entries; an ID may be repeated in a list
IdLists == SeqsUpTo(DocIds, 2)

\* the ids lists upsert is called with: the lists of at most one ID, the
\* lists that repeat an ID, and one list of two different IDs
UpsertIdLists ==
    {ids \in IdLists :
        Len(ids) < 2 \/ ids[1] = ids[2] \/ ids = <<<<"a">>, <<"b">>>>}

\* The vectors lists tried with an ids list: the embeddings of its entities;
\* the list with every vector of a wrong dimension; a ragged list; the
\* empty list; and a list of another length (of such a list the code looks
\* only at the length)
VecListsFor(ids) ==
    {vs \in [1..Len(ids) -> Vectors] :
        \A i \in 1..Len(ids) : vs[i] \in EmbeddingsOf(ids[i])}
        \cup {[i \in 1..Len(ids) |-> w] : w \in WrongVectors}
        \cup {[i \in 1..Len(ids) |-> IF i = 1 THEN <<3, 4>> ELSE w] :
                 w \in WrongVectors}
        \cup {<<>>, [i \in 1..(Len(ids) + 1) |-> <<3, 4>>]}

----------------------------------------------------------------------------
(* Strings and dicts *)

FullId(index_name, doc_id) == index_name \o <<":">> \o doc_id

StartsWith(s, p) == Len(s) >= Len(p) /\ SubSeq(s, 1, Len(p)) = p

EmptyDict == <<>>

DictSet(d, k, v) == [x \in (DOMAIN d) \cup {k} |-> IF x = k THEN v ELSE d[x]]

DictDel(d, k) == [x \in (DOMAIN d) \ {k} |-> d[x]]

\* F applied to the value of e, which is computed once
With(e, F(_)) == CHOOSE y \in {F(x) : x \in {e}} : TRUE

Max(S) == CHOOSE x \in S : \A y \in S : y <= x

----------------------------------------------------------------------------
(* Vectors *)

RECURSIVE SumSq(_)
SumSq(v) == IF v = <<>> THEN 0 ELSE Head(v) * Head(v) + SumSq(Tail(v))

RECURSIVE SumAbs(_)
SumAbs(v) ==
    IF v = <<>> THEN 0
    ELSE (IF Head(v) < 0 THEN -Head(v) ELSE Head(v)) + SumAbs(Tail(v))

\* np.linalg.norm, on vectors whose norm is an integer (it is at most the
\* sum of the absolute values of the components)
Norm(v) == With(SumSq(v), LAMBDA ss : CHOOSE n \in 0..SumAbs(v) : n * n = ss)

\* a normalisation that leaves every vector as it is
NormalizeLeavingAsIs(v) == v

\* vector / norm when norm > 0, the vector itself otherwise (fixed point, 5 = 1.0)
Normalize(v) ==
    With(Norm(v), LAMBDA norm :
        IF norm > 0 THEN [i \in 1..Len(v) |-> (v[i] * 5) \div norm] ELSE v)

\* Normalize, tabulated over the vectors upsert and search are called with
NormalizedInput == [v \in Vectors \cup WrongVectors |-> Normalize(v)]

RECURSIVE Dot(_, _)
Dot(u, v) ==
    IF u = <<>> \/ v = <<>> THEN 0 ELSE Head(u) * Head(v) + Dot(Tail(u), Tail(v))

----------------------------------------------------------------------------
(* The in-memory store as a value *)

Mem == [index |-> index, id_to_index |-> id_to_index, index_to_id |-> index_to_id]

EmptyStore == [index |-> <<>>, id_to_index |-> EmptyDict, index_to_id |-> EmptyDict]

ntotal(st) == Len(st.index)

----------------------------------------------------------------------------
(* FAISSVectorStore.delete and _rebuild_index_without_indices *)

Range(f) == {f[x] : x \in DOMAIN f}

\* {v: k for k, v in new_mappings.items()}: keys are visited in insertion
\* (ascending slot) order, so the last (highest) slot of an ID wins
InvertMappings(new_mappings) ==
    [f \in Range(new_mappings) |->
        Max({k \in DOMAIN new_mappings : new_mappings[k] = f})]

\* the loop over range(self.index.ntotal), from faiss_idx on
RECURSIVE RebuildLoop(_, _, _, _, _)
RebuildLoop(st, indices_to_remove, faiss_idx, all_vectors, new_mappings) ==
    IF faiss_idx >= ntotal(st)
    THEN [all_vectors |-> all_vectors, new_mappings |-> new_mappings]
    ELSE IF faiss_idx \notin Range(indices_to_remove)
            /\ faiss_idx \in DOMAIN st.index_to_id
         THEN With(Append(all_vectors, st.index[faiss_idx + 1]), LAMBDA av :
                With(DictSet(new_mappings, Len(all_vectors),
                             st.index_to_id[faiss_idx]),
                     LAMBDA nm :
                        RebuildLoop(st, indices_to_remove, faiss_idx + 1, av, nm)))
         ELSE RebuildLoop(st, indices_to_remove, faiss_idx + 1,
                          all_vectors, new_mappings)

\* a rebuild that keys the regenerated mapping by the old slot number
RebuildKeepingOldSlots(st, indices_to_remove) ==
    LET kept == {k \in 0..(ntotal(st) - 1) :
                    k \notin Range(indices_to_remove) /\ k \in DOMAIN st.index_to_id}
        r == RebuildLoop(st, indices_to_remove, 0, <<>>, EmptyDict)
        old == [k \in kept |-> st.index_to_id[k]]
    IN  IF indices_to_remove = <<>> THEN st
        ELSE IF r.all_vectors # <<>>
             THEN [index |-> r.all_vectors,
                   index_to_id |-> old,
                   id_to_index |-> InvertMappings(old)]
             ELSE EmptyStore

RebuildIndexWithoutIndices(st, indices_to_remove) ==
    IF indices_to_remove = <<>> THEN st
    ELSE With(RebuildLoop(st, indices_to_remove, 0, <<>>, EmptyDict), LAMBDA r :
            IF r.all_vectors # <<>>
            THEN [index |-> r.all_vectors,
                  index_to_id |-> r.new_mappings,
                  id_to_index |-> InvertMappings(r.new_mappings)]
            ELSE EmptyStore)

\* the marking loop of delete over ids, from position i on
RECURSIVE MarkLoop(_, _, _, _, _)
MarkLoop(st, index_name, ids, i, indices_to_remove) ==
    IF i > Len(ids)
    THEN [st |-> st, indices_to_remove |-> indices_to_remove]
    ELSE With(FullId(index_name, ids[i]), LAMBDA full_id :
            IF full_id \in DOMAIN st.id_to_index
            THEN With(st.id_to_index[full_id], LAMBDA faiss_idx :
                    With([st EXCEPT
                            !.id_to_index = DictDel(st.id_to_index, full_id),
                            !.index_to_id =
                                IF faiss_idx \in DOMAIN st.index_to_id
                                THEN DictDel(st.index_to_id, faiss_idx)
                                ELSE st.index_to_id],
                         LAMBDA st2 :
                            MarkLoop(st2, index_name, ids, i + 1,
                                     Append(indices_to_remove, faiss_idx))))
            ELSE MarkLoop(st, index_name, ids, i + 1, indices_to_remove))

\* a delete that starts a new empty index when it finds none of the IDs
DeleteResettingOnAbsent(st, index_name, ids) ==
    IF ids = <<>> THEN st
    ELSE With(MarkLoop(st, index_name, ids, 1, <<>>), LAMBDA m :
            IF m.indices_to_remove # <<>>
            THEN RebuildIndexWithoutIndices(m.st, m.indices_to_remove)
            ELSE EmptyStore)

\* delete(index_name, ids): the store it leaves in memory (nothing is saved)
DeleteOp(st, index_name, ids) ==
    IF ids = <<>> THEN st
    ELSE With(MarkLoop(st, index_name, ids, 1, <<>>), LAMBDA m :
            IF m.indices_to_remove # <<>>
            THEN RebuildIndexWithoutIndices(m.st, m.indices_to_remove)
            ELSE m.st)

----------------------------------------------------------------------------
(* FAISSVectorStore.upsert, up to the call of save *)

\* np.array(normalized_vectors) of vectors of unequal lengths raises
Ragged(vectors) == \E i, j \in DOMAIN vectors : Len(vectors[i]) # Len(vectors[j])

\* the mapping loop of upsert over enumerate(ids), from position i on
RECURSIVE MapLoop(_, _, _, _, _)
MapLoop(st, index_name, ids, start_idx, i) ==
    IF i > Len(ids) THEN st
    ELSE With(FullId(index_name, ids[i]), LAMBDA full_id :
            With([st EXCEPT
                    !.id_to_index =
                        DictSet(st.id_to_index, full_id, start_idx + (i - 1)),
                    !.index_to_id =
                        DictSet(st.index_to_id, start_idx + (i - 1), full_id)],
                 LAMBDA st2 : MapLoop(st2, index_name, ids, start_idx, i + 1)))

\* self.index.add(vectors_array): the rows appended, each with its ghost owner
AddedRows(index_name, ids, vectors) ==
    [i \in 1..Len(vectors) |->
        [v |-> NormalizedInput[vectors[i]], by |-> FullId(index_name, ids[i]),
         coll |-> index_name]]

\* out: "noop" (early return), "raised" (an exception leaves upsert),
\*      "save" (save() is reached); st: the in-memory store at that point
UpsertOp(st, index_name, ids, vectors) ==
    IF ids = <<>> \/ vectors = <<>>
    THEN [out |-> "noop", st |-> st]
    ELSE IF Len(ids) # Len(vectors) \/ Ragged(vectors)
    THEN [out |-> "raised", st |-> st]
    ELSE With(DeleteOp(st, index_name, ids), LAMBDA d :
            IF \E i \in DOMAIN vectors : Len(vectors[i]) # dimension
            THEN [out |-> "raised", st |-> d]
            ELSE [out |-> "save",
                  st |-> MapLoop(
                           [d EXCEPT !.index =
                               d.index \o AddedRows(index_name, ids, vectors)],
                           index_name, ids, ntotal(d), 1)])

----------------------------------------------------------------------------
(* FAISSVectorStore.search and get_stats *)

Score(st, slot, q) == Dot(q, st.index[slot + 1].v)

\* The order in which IndexFlatIP.search returns slots of equal score is
\* fixed by the FAISS build, not by the store: search sorts nothing itself
\* (lines 148-157).  A build returns them lowest slot first or highest slot
\* first.
TieOrders == {"ascending", "descending"}

\* the slot of S with the best score; of equal scores the one ties puts first
BestSlot(ties, scores, S) ==
    CHOOSE s \in S : \A t \in S :
        \/ scores[s] > scores[t]
        \/ /\ scores[s] = scores[t]
           /\ IF ties = "ascending" THEN s <= t ELSE s >= t

\* IndexFlatIP.search: the k best slots by inner product, best first
RECURSIVE TopSlots(_, _, _, _)
TopSlots(ties, scores, k, S) ==
    IF k = 0 \/ S = {} THEN <<>>
    ELSE With(BestSlot(ties, scores, S), LAMBDA best :
            <<best>> \o TopSlots(ties, scores, k - 1, S \ {best}))

\* the result loop of search over the hits, from position i on
RECURSIVE ResultLoop(_, _, _, _, _)
ResultLoop(st, index_name, scores, hits, i) ==
    IF i > Len(hits) THEN <<>>
    ELSE IF hits[i] \in DOMAIN st.index_to_id
            /\ StartsWith(st.index_to_id[hits[i]], index_name \o <<":">>)
         THEN <<[doc_id |-> SubSeq(st.index_to_id[hits[i]], Len(index_name) + 2,
                                   Len(st.index_to_id[hits[i]])),
                 score |-> scores[hits[i]]]>>
                 \o ResultLoop(st, index_name, scores, hits, i + 1)
         ELSE ResultLoop(st, index_name, scores, hits, i + 1)

Min2(a, b) == IF a <= b THEN a ELSE b

\* the inner product of the normalised query with every stored vector
ScoresOf(st, vector) ==
    With(NormalizedInput[vector], LAMBDA query_vector :
        [slot \in 0..(ntotal(st) - 1) |-> Score(st, slot, query_vector)])

\* search(index_name, vector, top_k) on a build with tie order ties
SearchOp(st, index_name, vector, top_k, ties) ==
    IF ntotal(st) = 0 THEN <<>>
    ELSE With(ScoresOf(st, vector), LAMBDA scores :
            With(TopSlots(ties, scores, Min2(top_k, ntotal(st)), DOMAIN scores),
                 LAMBDA hits : ResultLoop(st, index_name, scores, hits, 1)))

\* line 148: the slots self.index.search returns, best first
SearchHits(st, vector, top_k, ties) ==
    IF ntotal(st) = 0 THEN <<>>
    ELSE With(ScoresOf(st, vector), LAMBDA scores :
            TopSlots(ties, scores, Min2(top_k, ntotal(st)), DOMAIN scores))

GetStatsOp(st) ==
    [total_vectors |-> ntotal(st), mapped_ids |-> Cardinality(DOMAIN st.id_to_index)]

----------------------------------------------------------------------------
(* The two files, save and the constructor *)

AbsentIndexFile == [st |-> "absent", data |-> <<>>]

AbsentMapFile ==
    [st |-> "absent", id_to_index |-> EmptyDict, index_to_id |-> EmptyDict]

\* faiss.write_index(self.index, self.index_path)
WrittenIndexFile(st) == [st |-> "ok", data |-> st.index]

\* pickle.dump of the two dicts
WrittenMapFile(st) ==
    [st |-> "ok", id_to_index |-> st.id_to_index, index_to_id |-> st.index_to_id]

\* What save() can do to the files.  "ok": both written.  "index_fail":
\* write_index raises, save logs it and writes nothing.  "map_fail": the
\* index is written, the mapping write raises and _save_mappings logs it.
\* "crash": the process dies between the two writes.
SaveOutcomes == {"ok", "index_fail", "map_fail", "crash"}

SaveIndexFile(st, old, outcome) ==
    IF outcome = "index_fail" THEN old ELSE WrittenIndexFile(st)

SaveMapFile(st, old, outcome) ==
    IF outcome = "ok" THEN WrittenMapFile(st) ELSE old

\* A file is "absent", "ok" (it reads back what was written) or "corrupt"
\* (it exists and reading it raises).
\* _load_mappings: a missing mapping file leaves both dicts as __init__ made
\* them (line 55), an unreadable one resets them (lines 62-65)
LoadMappings(mapFile) ==
    IF mapFile.st = "ok"
    THEN [id_to_index |-> mapFile.id_to_index, index_to_id |-> mapFile.index_to_id]
    ELSE [id_to_index |-> EmptyDict, index_to_id |-> EmptyDict]

\* a constructor that loads the mappings whether or not the index file
\* could be read
LoadStoreMappingsAlways(indexFile, mapFile) ==
    [index |-> IF indexFile.st = "ok" THEN indexFile.data ELSE <<>>,
     id_to_index |-> LoadMappings(mapFile).id_to_index,
     index_to_id |-> LoadMappings(mapFile).index_to_id]

\* __init__ / _load_or_create_index: the store built from the files.  An
\* index file that is missing (line 44) or unreadable (lines 40-42) gives a
\* new index, and the mappings are not loaded.
LoadStore(indexFile, mapFile) ==
    IF indexFile.st = "ok"
    THEN [index |-> indexFile.data,
          id_to_index |-> LoadMappings(mapFile).id_to_index,
          index_to_id |-> LoadMappings(mapFile).index_to_id]
    ELSE IF indexFile.st = "corrupt" THEN EmptyStore
    ELSE EmptyStore

----------------------------------------------------------------------------
(* The sequential specification: one store object, its two files, and the
   calls made on it one after the other *)

\* get_matching_service() builds a MatchingService at every call, and so
\* does every MatchingViewSet: two requests handled at the same time work
\* on two objects
Instances == {"i1", "i2"}

\* pc: "none" (not built), "loaded" (__init__ returned), "indexed" (upsert
\* has written the index file), "done" (index_candidate returned True)
NoInstance == [pc |-> "none", st |-> EmptyStore, id |-> <<>>, ret |-> FALSE]

SetMem(st) ==
    /\ index' = st.index
    /\ id_to_index' = st.id_to_index
    /\ index_to_id' = st.index_to_id

\* the last call: which operation, and the path it took through the code
Call(op, out) == [op |-> op, out |-> out]

\* a thread that has not been given a call
IdleThread ==
    [pc |-> "idle", op |-> "none", name |-> <<>>, ids |-> <<>>, vecs |-> <<>>,
     k |-> 0, i |-> 0, rm |-> <<>>, av |-> <<>>, nm |-> EmptyDict,
     start |-> 0, scores |-> <<>>, hits |-> <<>>, out |-> "none", res |-> <<>>]

\* the threads that call upsert or delete, and the one that calls search or
\* get_stats
Mutators == {"t1", "t2"}

Reader == "reader"

\* no call of a service has been made
NoServiceCall ==
    [op |-> "none", arg |-> <<>>, ret |-> <<>>, embeds |-> 0, err |-> "none",
     batched |-> <<>>]

\* the store and the files as one value
Snapshot(st, indexFile, mapFile) ==
    [mem |-> st, diskIndex |-> indexFile, diskMap |-> mapFile]

Init ==
    /\ index = <<>>
    /\ id_to_index = EmptyDict
    /\ index_to_id = EmptyDict
    /\ alive = TRUE
    /\ diskIndex = AbsentIndexFile
    /\ diskMap = AbsentMapFile
    /\ faults = 0
    /\ last = Call("init", "returned")
    /\ th = [t \in Mutators \cup {Reader} |-> IdleThread]
    /\ begun = Snapshot(EmptyStore, AbsentIndexFile, AbsentMapFile)
    /\ svc = NoServiceCall
    /\ memory = <<>>
    /\ job_offers_store = EmptyStore
    /\ instances = [i \in Instances |-> NoInstance]

\* upsert(index_name, ids, vectors), save() included
Upsert(index_name, ids, vectors, outcome) ==
    \E r \in {UpsertOp(Mem, index_name, ids, vectors)} :
        /\ alive
        /\ ntotal(r.st) <= MaxSlots
        /\ IF r.out = "save"
           THEN /\ outcome # "ok" => faults < MaxFaults
                /\ faults' = IF outcome = "ok" THEN faults ELSE faults + 1
                /\ diskIndex' = SaveIndexFile(r.st, diskIndex, outcome)
                /\ diskMap' = SaveMapFile(r.st, diskMap, outcome)
                /\ IF outcome = "crash"
                   THEN /\ SetMem(EmptyStore)
                        /\ alive' = FALSE
                        /\ last' = Call("upsert", "crashed")
                   ELSE /\ SetMem(r.st)
                        /\ alive' = TRUE
                        /\ last' = Call("upsert", "returned")
           ELSE /\ outcome = "ok"
                /\ SetMem(r.st)
                /\ last' = Call("upsert", r.out)
                /\ UNCHANGED <<alive, diskIndex, diskMap, faults>>
        /\ UNCHANGED <<th, begun, svc, memory, job_offers_store, instances>>

\* delete(index_name, ids), also as MatchingService.delete_candidate /
\* delete_job_offer call it on their resident store
Delete(index_name, ids) ==
    /\ alive
    /\ \E d \in {DeleteOp(Mem, index_name, ids)} :
          /\ SetMem(d)
          /\ last' = Call("delete", IF ids = <<>> THEN "empty"
                                     ELSE IF d = Mem THEN "nothing"
                                     ELSE "removed")
    /\ UNCHANGED <<alive, diskIndex, diskMap, faults, th, begun, svc, memory, job_offers_store, instances>>

\* remove_candidate_on_delete / remove_job_offer_on_delete: a new
\* MatchingService is built from the files, delete runs on its store, and the
\* service is dropped, so neither the resident store nor a file changes.
RemoveOnDelete(index_name, doc_id) ==
    \E fresh \in {LoadStore(diskIndex, diskMap)} :
        /\ last' = Call("signal_delete",
                        IF DeleteOp(fresh, index_name, <<doc_id>>) = fresh
                        THEN "nothing" ELSE "removed")
        /\ UNCHANGED <<index, id_to_index, index_to_id, alive, diskIndex, diskMap,
                       faults, th, begun, svc, memory, job_offers_store, instances>>

\* FAISSVectorStore(index_path, dimension) in a new process, after the old
\* one ended or crashed
Load ==
    /\ \E fresh \in {LoadStore(diskIndex, diskMap)} : SetMem(fresh)
    /\ alive' = TRUE
    /\ last' = Call("load", IF alive THEN "restart" ELSE "after_crash")
    /\ UNCHANGED <<diskIndex, diskMap, faults, th, begun, svc, memory, job_offers_store, instances>>

\* the environment damages a file that exists: from then on reading it raises
Damage(file) ==
    /\ faults < MaxFaults
    /\ faults' = faults + 1
    /\ IF file = "index"
       THEN /\ diskIndex.st = "ok"
            /\ diskIndex' = [diskIndex EXCEPT !.st = "corrupt"]
            /\ UNCHANGED diskMap
       ELSE /\ diskMap.st = "ok"
            /\ diskMap' = [diskMap EXCEPT !.st = "corrupt"]
            /\ UNCHANGED diskIndex
    /\ last' = Call("damage", file)
    /\ UNCHANGED <<index, id_to_index, index_to_id, alive, th, begun, svc, memory, job_offers_store, instances>>

Next ==
    \/ \E n \in IndexNames, ids \in UpsertIdLists :
          \E vs \in VecListsFor(ids) : Upsert(n, ids, vs, "ok")
    \/ \E n \in IndexNames, ids \in IdLists : Delete(n, ids)

Spec == Init /\ [][Next]_vars

----------------------------------------------------------------------------
(* The specification with the files: saves that fail or are cut by a crash,
   the signal handlers, and the store built again from the files *)

\* the entities indexed and removed in these specifications, one at a time,
\* as index_candidate, index_job_offer, delete_candidate and delete_job_offer
\* call the store
DiskDocIds == {<<"a">>, <<"b">>}

\* an entity is indexed, and save ends in one of its outcomes
IndexEntity(index_name, doc_id) ==
    \E v \in EmbeddingsOf(doc_id), outcome \in SaveOutcomes :
        Upsert(index_name, <<doc_id>>, <<v>>, outcome)

NextDisk ==
    \/ \E n \in IndexNames, d \in DiskDocIds : IndexEntity(n, d)
    \/ \E n \in IndexNames, d \in DiskDocIds : Delete(n, <<d>>)
    \/ \E n \in IndexNames, d \in DiskDocIds : RemoveOnDelete(n, d)
    \/ \E file \in {"index", "mapping"} : Damage(file)
    \/ Load

SpecDisk == Init /\ [][NextDisk]_vars

\* entities are indexed and the process is restarted, nothing is deleted
NextCrash ==
    \/ \E n \in IndexNames, d \in DocIds : IndexEntity(n, d)
    \/ Load

SpecCrash == Init /\ [][NextCrash]_vars

----------------------------------------------------------------------------
(* The specification with two collections in one store.  index_name and the
   IDs are strings the caller chooses; ":" may occur in them. *)

CollectionNames == {<<"j">>, <<"j", ":", "k">>}

CollectionDocIds == {<<"a">>, <<"k", ":", "a">>}

NextNames ==
    \/ \E n \in CollectionNames, d \in CollectionDocIds, v \in Vectors :
          Upsert(n, <<d>>, <<v>>, "ok")
    \/ \E n \in CollectionNames, d \in CollectionDocIds : Delete(n, <<d>>)

SpecNames == Init /\ [][NextNames]_vars

----------------------------------------------------------------------------
(* TextProcessor and EmbeddingProvider (embeddings_service.py).  A text is
   a sequence of tokens: one-character strings, and the labels the
   projections insert, each kept as one token. *)

Whitespace == {" "}

RECURSIVE LStrip(_)
LStrip(text) ==
    IF text # <<>> /\ Head(text) \in Whitespace THEN LStrip(Tail(text)) ELSE text

RECURSIVE RStrip(_)
RStrip(text) ==
    IF text # <<>> /\ text[Len(text)] \in Whitespace
    THEN RStrip(SubSeq(text, 1, Len(text) - 1))
    ELSE text

\* a strip that removes nothing
StripNothing(text) == text

\* str.strip()
Strip(text) == RStrip(LStrip(text))

\* sep.join(parts)
RECURSIVE Join(_, _)
Join(parts, sep) ==
    IF parts = <<>> THEN <<>>
    ELSE IF Len(parts) = 1 THEN parts[1]
    ELSE parts[1] \o sep \o Join(Tail(parts), sep)

\* [skill.get('name', '') for skill in skills]
SkillNames(skills) == [i \in DOMAIN skills |-> skills[i].name]

\* one part when the field is present and truthy, none otherwise
PartOf(field) == IF field # <<>> THEN <<field>> ELSE <<>>

\* the part of a list of skills under a label
SkillsPart(label, skills) ==
    IF skills # <<>> /\ Join(SkillNames(skills), <<" ">>) # <<>>
    THEN <<<<label, " ">> \o Join(SkillNames(skills), <<" ">>)>>
    ELSE <<>>

\* TextProcessor.prepare_candidate_text, on data that have no experiences,
\* educations or resumes
prepare_candidate_text(candidate_data) ==
    Join(PartOf(candidate_data.headline)
            \o PartOf(candidate_data.summary)
            \o SkillsPart("Competences:", candidate_data.skills),
         <<" ">>)

\* TextProcessor.prepare_job_offer_text, on data that have no seniority and
\* no location
prepare_job_offer_text(job_data) ==
    Join(PartOf(job_data.title)
            \o PartOf(job_data.description)
            \o SkillsPart("Competences requises:", job_data.required_skills)
            \o (IF job_data.is_remote THEN <<<<"Teletravail possible">>>> ELSE <<>>),
         <<" ">>)

\* The entity data the services are called with.  raises: the data make the
\* projection raise (a skill that is not a dict).
CandidateDatas ==
    {[headline |-> h, summary |-> <<>>, skills |-> <<>>, raises |-> FALSE] :
        h \in {<<>>, <<"x">>}}
    \cup {[headline |-> <<>>, summary |-> <<" ">>,
           skills |-> <<[name |-> <<>>]>>, raises |-> FALSE],
          [headline |-> <<>>, summary |-> <<>>,
           skills |-> <<[name |-> <<"y">>]>>, raises |-> FALSE],
          [headline |-> <<"x">>, summary |-> <<>>,
           skills |-> <<[name |-> <<>>], [name |-> <<>>]>>, raises |-> FALSE],
          [headline |-> <<"x">>, summary |-> <<>>, skills |-> <<>>,
           raises |-> TRUE]}

JobDatas ==
    {[title |-> t, description |-> <<>>, required_skills |-> <<>>,
      is_remote |-> FALSE, raises |-> FALSE] : t \in {<<>>, <<" ", " ">>, <<"x">>}}
    \cup {[title |-> <<>>, description |-> <<"y">>,
           required_skills |-> <<[name |-> <<"x">>]>>,
           is_remote |-> TRUE, raises |-> FALSE],
          [title |-> <<"x">>, description |-> <<>>, required_skills |-> <<>>,
           is_remote |-> FALSE, raises |-> TRUE]}

\* What the embedding provider does in a call: it returns vectors of the
\* index dimension, it raises, or it returns vectors of another dimension
\* (the index file was written with another model).
EmbedOutcomes == {"ok", "raise", "wrong_dim"}

\* the vector model.encode gives a text: a function of the text
Embedding(text, how) ==
    IF how = "wrong_dim" THEN <<5>>
    ELSE IF "x" \in Range(text) THEN <<3, 4>> ELSE <<8, 6>>

\* EmbeddingProvider.embed_texts on a non-empty list, when it does not raise
embed_texts(texts, how) == [i \in DOMAIN texts |-> Embedding(texts[i], how)]

----------------------------------------------------------------------------
(* MatchingService (matching_service.py), on its candidates store.
   index_job_offer, batch_index_job_offers, find_jobs_for_candidate and
   delete_job_offer are the same code on the job offers store, with the two
   projections exchanged. *)

\* the index_name MatchingService gives its candidates store
CandidatesIndex == <<"candidates">>

\* upsert was not called
NoUpsert(st) == [out |-> "noop", st |-> st]

\* What a call of the service did.  ret: the value returned; embeds: the
\* calls of the embedding provider; err: the collaborator that raised
\* ("none", "projection", "embedding", "store"); up: what upsert did.
ServiceResult(ret, embeds, err, up) ==
    [ret |-> ret, embeds |-> embeds, err |-> err, up |-> up]

\* index_candidate(candidate_id, candidate_data)
IndexCandidateOp(st, candidate_id, candidate_data, how) ==
    IF candidate_data.raises
    THEN ServiceResult(FALSE, 0, "projection", NoUpsert(st))
    ELSE With(prepare_candidate_text(candidate_data), LAMBDA text :
            IF Strip(text) = <<>>
            THEN ServiceResult(FALSE, 0, "none", NoUpsert(st))
            ELSE IF how = "raise"
            THEN ServiceResult(FALSE, 1, "embedding", NoUpsert(st))
            ELSE With(UpsertOp(st, CandidatesIndex, <<candidate_id>>,
                               <<Embedding(text, how)>>),
                      LAMBDA u :
                        IF u.out = "raised"
                        THEN ServiceResult(FALSE, 1, "store", u)
                        ELSE ServiceResult(TRUE, 1, "none", u)))

\* self.index.search raises on a query of another dimension (line 148)
SearchRaises(st, vector) == ntotal(st) > 0 /\ Len(vector) # dimension

\* find_candidates_for_job(job_id, job_data, top_k)
FindCandidatesForJobOp(st, job_data, top_k, how, ties) ==
    IF job_data.raises
    THEN ServiceResult(<<>>, 0, "projection", NoUpsert(st))
    ELSE With(prepare_job_offer_text(job_data), LAMBDA text :
            IF Strip(text) = <<>>
            THEN ServiceResult(<<>>, 0, "none", NoUpsert(st))
            ELSE IF how = "raise"
            THEN ServiceResult(<<>>, 1, "embedding", NoUpsert(st))
            ELSE IF SearchRaises(st, Embedding(text, how))
            THEN ServiceResult(<<>>, 1, "store", NoUpsert(st))
            ELSE ServiceResult(SearchOp(st, CandidatesIndex, Embedding(text, how),
                                        top_k, ties),
                               1, "none", NoUpsert(st)))

\* the loop body of batch_index_candidates that skips an entity without
\* text and records nothing for it
BatchPrepareOneDroppingBlank(acc, pair) ==
    IF pair.data.raises
    THEN [acc EXCEPT !.results = DictSet(@, pair.id, FALSE)]
    ELSE IF Strip(prepare_candidate_text(pair.data)) # <<>>
    THEN [acc EXCEPT !.texts = Append(@, prepare_candidate_text(pair.data)),
                     !.ids = Append(@, pair.id)]
    ELSE acc

\* batch_index_candidates, lines 187-197: one iteration of the first loop
BatchPrepareOne(acc, pair) ==
    IF pair.data.raises
    THEN [acc EXCEPT !.results = DictSet(@, pair.id, FALSE)]
    ELSE IF Strip(prepare_candidate_text(pair.data)) # <<>>
    THEN [acc EXCEPT !.texts = Append(@, prepare_candidate_text(pair.data)),
                     !.ids = Append(@, pair.id)]
    ELSE [acc EXCEPT !.results = DictSet(@, pair.id, FALSE)]

RECURSIVE BatchPrepareLoop(_, _, _)
BatchPrepareLoop(candidates_data, i, acc) ==
    IF i > Len(candidates_data) THEN acc
    ELSE BatchPrepareLoop(candidates_data, i + 1,
                          BatchPrepareOne(acc, candidates_data[i]))

\* for candidate_id in ids: results[candidate_id] = value
MarkAll(results, ids, value) ==
    [x \in (DOMAIN results) \cup Range(ids) |->
        IF x \in Range(ids) THEN value ELSE results[x]]

\* a batch that reports success whatever upsert did
BatchReportsAlwaysTrue(out) == TRUE

\* lines 205-214: the IDs are marked True when upsert returned, False when
\* it raised
BatchReports(out) == out # "raised"

\* batch_index_candidates(candidates_data); batched: the IDs that were
\* given to embed_texts and upsert
BatchIndexCandidatesOp(st, candidates_data, how) ==
    With(BatchPrepareLoop(candidates_data, 1,
                          [results |-> EmptyDict, texts |-> <<>>, ids |-> <<>>]),
         LAMBDA p :
            IF p.texts = <<>>
            THEN [batched |-> <<>>] @@
                 ServiceResult(p.results, 0, "none", NoUpsert(st))
            ELSE IF how = "raise"
            THEN [batched |-> p.ids] @@
                 ServiceResult(MarkAll(p.results, p.ids, FALSE), 1, "embedding",
                               NoUpsert(st))
            ELSE With(UpsertOp(st, CandidatesIndex, p.ids,
                               embed_texts(p.texts, how)),
                      LAMBDA u :
                        [batched |-> p.ids] @@
                        ServiceResult(MarkAll(p.results, p.ids, BatchReports(u.out)),
                                      1,
                                      IF u.out = "raised" THEN "store" ELSE "none",
                                      u)))

\* the store and the files after a call of the service: upsert's save
\* included
ApplyUpsert(up) ==
    /\ alive
    /\ ntotal(up.st) <= MaxSlots
    /\ SetMem(up.st)
    /\ IF up.out = "save"
       THEN /\ diskIndex' = WrittenIndexFile(up.st)
            /\ diskMap' = WrittenMapFile(up.st)
       ELSE UNCHANGED <<diskIndex, diskMap>>
    /\ UNCHANGED <<alive, faults, th, begun, memory, job_offers_store, instances>>

\* the call is recorded
Served(op, arg, r, batched) ==
    /\ svc' = [op |-> op, arg |-> arg, ret |-> r.ret, embeds |-> r.embeds,
               err |-> r.err, batched |-> batched]
    /\ last' = Call(op, "returned")

\* the entity and its projection are recorded with the call
IndexCandidate(candidate_id, candidate_data, how) ==
    \E r \in {IndexCandidateOp(Mem, candidate_id, candidate_data, how)} :
        /\ ApplyUpsert(r.up)
        /\ svc' = [op |-> "index_candidate", arg |-> <<candidate_id>>, ret |-> r.ret,
                   embeds |-> r.embeds, err |-> r.err, batched |-> <<>>,
                   data |-> candidate_data,
                   text |-> IF candidate_data.raises THEN <<>>
                            ELSE prepare_candidate_text(candidate_data)]
        /\ last' = Call("index_candidate", "returned")

FindCandidatesForJob(job_data, top_k, how, ties) ==
    \E r \in {FindCandidatesForJobOp(Mem, job_data, top_k, how, ties)} :
        /\ ApplyUpsert(r.up)
        /\ Served("find_candidates_for_job", <<>>, r, <<>>)

BatchIndexCandidates(candidates_data, how) ==
    \E r \in {BatchIndexCandidatesOp(Mem, candidates_data, how)} :
        /\ ApplyUpsert(r.up)
        /\ Served("batch_index_candidates",
                  [i \in DOMAIN candidates_data |-> candidates_data[i].id],
                  r, r.batched)

\* delete_candidate(candidate_id): store.delete raises nothing, True is
\* returned
DeleteCandidateOp(st, candidate_id) ==
    ServiceResult(TRUE, 0, "none",
                  NoUpsert(DeleteOp(st, CandidatesIndex, <<candidate_id>>)))

DeleteCandidate(candidate_id) ==
    \E r \in {DeleteCandidateOp(Mem, candidate_id)} :
        /\ ApplyUpsert(r.up)
        /\ Served("delete_candidate", <<candidate_id>>, r, <<>>)

\* the candidates the service is called for
CandidateIds == {<<"a">>, <<"b">>}

\* the lists batch_index_candidates is called with
MaxBatch == 2

\* entities of a batch: one whose text is blank, one with text, one whose
\* projection raises
BatchDatas ==
    {d \in CandidateDatas : (d.headline # <<>> \/ d.summary # <<>>) /\ d.skills = <<>>}
    \cup {d \in CandidateDatas : d.summary # <<>>}

BatchInputs ==
    SeqsUpTo({[id |-> c, data |-> d] : c \in CandidateIds, d \in BatchDatas},
             MaxBatch)

NextService ==
    \/ \E c \in CandidateIds, d \in CandidateDatas, how \in EmbedOutcomes :
          IndexCandidate(c, d, how)
    \/ \E d \in JobDatas, k \in {1, MaxSlots}, how \in EmbedOutcomes,
          ties \in TieOrders :
          FindCandidatesForJob(d, k, how, ties)
    \/ \E cs \in BatchInputs, how \in EmbedOutcomes : BatchIndexCandidates(cs, how)
    \/ \E c \in CandidateIds : DeleteCandidate(c)

SpecService == Init /\ [][NextService]_vars

----------------------------------------------------------------------------
(* LLMAgentService (agent_service.py).  A query is a sequence of characters.
   Scores are in the fixed point of the store (25 is 1.0); a fused score is
   kept multiplied by 10, so that 0.6 and 0.4 are the integers 6 and 4. *)

\* Python's None
None == <<"<None>">>

\* bool(x) is False: None or the empty string
Falsy(x) == x = None \/ x = <<>>

\* str.lower() on the characters of the queries
Lower(text) ==
    [i \in DOMAIN text |->
        IF text[i] = "U" THEN "u" ELSE IF text[i] = "J" THEN "j" ELSE text[i]]

\* k in q: k is a substring of q
Contains(q, k) ==
    \E i \in 1..(Len(q) - Len(k) + 1) : SubSeq(q, i, i + Len(k) - 1) = k

JobTerms ==
    {<<"o", "f", "f", "r", "e">>, <<"j", "o", "b">>, <<"p", "o", "s", "t", "e">>,
     <<"e", "m", "p", "l", "o", "i", "s">>,
     <<"m", "i", "s", "s", "i", "o", "n", "s">>}

CandidateTerms ==
    {<<"c", "a", "n", "d", "i", "d", "a", "t">>, <<"p", "r", "o", "f", "i", "l">>,
     <<"t", "a", "l", "e", "n", "t">>,
     <<"p", "e", "r", "s", "o", "n", "n", "e">>}

\* a resolution that looks for the candidate terms first
DetectTargetCandidatesFirst(query, explicit_target) ==
    IF explicit_target \in {<<"jobs">>, <<"candidates">>} THEN explicit_target
    ELSE IF \E k \in CandidateTerms : Contains(Lower(query), k) THEN <<"candidates">>
    ELSE <<"jobs">>

_detect_target(query, explicit_target) ==
    IF explicit_target \in {<<"jobs">>, <<"candidates">>} THEN explicit_target
    ELSE IF \E k \in JobTerms : Contains(Lower(query), k) THEN <<"jobs">>
    ELSE IF \E k \in CandidateTerms : Contains(Lower(query), k) THEN <<"candidates">>
    ELSE <<"jobs">>

\* the characters of [A-Za-z...0-9+#.] among those of the queries
IsTokenChar(c) == c \notin {" ", ",", ":"}

\* re.findall: the maximal runs of token characters, left to right
RECURSIVE FindAll(_, _, _, _)
FindAll(query, i, cur, acc) ==
    IF i > Len(query)
    THEN IF cur = <<>> THEN acc ELSE Append(acc, cur)
    ELSE IF IsTokenChar(query[i])
    THEN FindAll(query, i + 1, Append(cur, query[i]), acc)
    ELSE FindAll(query, i + 1, <<>>, IF cur = <<>> THEN acc ELSE Append(acc, cur))

\* the stop words that can be written with the characters of the queries
StopWords ==
    {<<"l", "e">>, <<"l", "a">>, <<"l", "e", "s">>, <<"d", "e">>, <<"d", "u">>,
     <<"d", "e", "s">>, <<"u", "n">>, <<"u", "n", "e">>, <<"e", "t">>,
     <<"o", "u">>, <<"p", "o", "u", "r">>, <<"a", "v", "e", "c">>,
     <<"s", "u", "r">>, <<"e", "n">>, <<"a", "u">>, <<"a", "u", "x">>,
     <<"d", "a", "n", "s">>, <<"p", "a", "r">>, <<"c", "h", "e", "z">>,
     <<"j", "e">>, <<"n", "o", "u", "s">>, <<"v", "o", "u", "s">>,
     <<"i", "l", "s">>, <<"e", "l", "l", "e", "s">>, <<"m", "o", "n">>,
     <<"m", "a">>, <<"m", "e", "s">>, <<"t", "o", "n">>, <<"t", "a">>,
     <<"t", "e", "s">>, <<"s", "o", "n">>, <<"s", "a">>, <<"s", "e", "s">>}

\* [:20]
KeywordCap == 20

Take(seq, n) == SubSeq(seq, 1, IF Len(seq) < n THEN Len(seq) ELSE n)

KeptToken(t) == Lower(t) \notin StopWords /\ Len(t) > 1

_extract_keywords(query) ==
    Take(SelectSeq(FindAll(query, 1, <<>>, <<>>), KeptToken), KeywordCap)

\* sep.join(words), the words being sequences of characters
RECURSIVE JoinWords(_, _)
JoinWords(words, sep) ==
    IF words = <<>> THEN <<>>
    ELSE IF Len(words) = 1 THEN words[1]
    ELSE words[1] \o sep \o JoinWords(Tail(words), sep)

\* a base text that is the reformulation whenever there is one, empty or not
BaseTextUnlessNone(query, reformulated) ==
    IF reformulated = None THEN query ELSE reformulated

\* line 129: reformulated or query
BaseText(query, reformulated) ==
    IF Falsy(reformulated) THEN query ELSE reformulated

\* lines 129-133
Enriched(query, reformulated, keywords, context_text) ==
    BaseText(query, reformulated)
    \o (IF keywords # <<>>
        THEN <<"\nMots-cles: ">> \o JoinWords(keywords, <<",", " ">>)
        ELSE <<>>)
    \o (IF ~Falsy(context_text) THEN <<"\nContexte: ">> \o context_text ELSE <<>>)

\* a memory that keeps the last turn of a session only
AddTurnReplacing(mem, session_id, role, content) ==
    IF Falsy(session_id) THEN mem
    ELSE DictSet(mem, session_id, <<[role |-> role, content |-> content]>>)

\* AgentMemory.add_turn
add_turn(mem, session_id, role, content) ==
    IF Falsy(session_id) THEN mem
    ELSE DictSet(mem, session_id,
                 Append(IF session_id \in DOMAIN mem THEN mem[session_id] ELSE <<>>,
                        [role |-> role, content |-> content]))

\* AgentMemory.get_history
get_history(mem, session_id) ==
    IF session_id \in DOMAIN mem THEN mem[session_id] ELSE <<>>

\* {doc_id: score for doc_id, score in faiss_results}: the last pair of an
\* ID is the one kept
FaissMap(faiss_results) ==
    [d \in {faiss_results[i].doc_id : i \in DOMAIN faiss_results} |->
        faiss_results[CHOOSE i \in DOMAIN faiss_results :
                         /\ faiss_results[i].doc_id = d
                         /\ \A j \in DOMAIN faiss_results :
                               faiss_results[j].doc_id = d => j <= i].score]

\* str(x)
StrOf(x) == IF x = None THEN <<"None">> ELSE x

\* line 159: str(h.get("_id") or h.get("_source", {}).get("id"))
HitId(h) == StrOf(IF ~Falsy(h._id) THEN h._id ELSE h.src_id)

\* lines 156-161
EsMap(es_docs) ==
    [d \in {HitId(es_docs[i]) : i \in DOMAIN es_docs} \ {<<"None">>, <<>>} |->
        es_docs[CHOOSE i \in DOMAIN es_docs :
                   /\ HitId(es_docs[i]) = d
                   /\ \A j \in DOMAIN es_docs : HitId(es_docs[j]) = d => j <= i]._score]

\* a fusion that weighs the two scores equally
FusedScoreEqualWeights(faiss_map, es_map, did) ==
    IF did \in DOMAIN faiss_map /\ did \in DOMAIN es_map
    THEN 5 * faiss_map[did] + 5 * es_map[did]
    ELSE IF did \in DOMAIN faiss_map
    THEN 10 * faiss_map[did]
    ELSE 4 * es_map[did]

\* lines 167-174, multiplied by 10
FusedScore(faiss_map, es_map, did) ==
    IF did \in DOMAIN faiss_map /\ did \in DOMAIN es_map
    THEN 6 * faiss_map[did] + 4 * es_map[did]
    ELSE IF did \in DOMAIN faiss_map
    THEN 10 * faiss_map[did]
    ELSE 4 * es_map[did]

\* the orders in which the elements of a set can be iterated
Orderings(S) ==
    {f \in [1..Cardinality(S) -> S] : \A i, j \in DOMAIN f : f[i] = f[j] => i = j}

\* lines 164-176: fused, sorted by score, best first.  The sort is stable and
\* the IDs come out of a set, so that IDs of equal score are in any order.
FusedRankings(faiss_map, es_map) ==
    {[i \in DOMAIN f |->
        [doc_id |-> f[i], score |-> FusedScore(faiss_map, es_map, f[i])]] :
     f \in {g \in Orderings((DOMAIN faiss_map) \cup (DOMAIN es_map)) :
              \A i, j \in DOMAIN g :
                 i < j => FusedScore(faiss_map, es_map, g[i])
                            >= FusedScore(faiss_map, es_map, g[j])}}

\* str(len(matches))
NumStr == [n \in 0..9 |-> <<"0", "1", "2", "3", "4", "5", "6", "7", "8", "9">>[n + 1]]

\* what the rewriter returns when it answers
Reformulation == <<"y">>

\* the lexical engine: not configured, raising, or answering with hits (of
\* scores 1.2, 2.4 and 3.6, or of score 0.2)
EsOutcomes ==
    {[st |-> "disabled", hits |-> <<>>], [st |-> "raise", hits |-> <<>>],
     [st |-> "ok", hits |-> <<[_id |-> <<"a">>, src_id |-> None, _score |-> 30],
                             [_id |-> None, src_id |-> <<"c">>, _score |-> 60],
                             [_id |-> None, src_id |-> None, _score |-> 90]>>],
     [st |-> "ok", hits |-> <<[_id |-> <<"a">>, src_id |-> None, _score |-> 5]>>]}

\* the rewriter: no API key, raising, answering, or answering with the
\* empty string
LlmOutcomes == {"disabled", "raise", "ok", "empty"}

\* a response that reports no failure
ErrorAsNoMatches(e) == [matches |-> <<>>]

\* lines 200-202: {"error": str(e)}
ErrorDict(e) == [error |-> e]

\* what ask did; ret: the dict returned; memory: the sessions it leaves;
\* embeds: calls of the embedding provider; err: the collaborators that
\* raised; called: the collaborators that were called; enriched: the text
\* given to the embedding provider
AskResult(ret, mem, embeds, err, called, enriched) ==
    [ret |-> ret, memory |-> mem, embeds |-> embeds, err |-> err, called |-> called,
     enriched |-> enriched]

\* a test of the query that rejects the empty string only
EmptyQueryOnlyWhenEmpty(query) == Falsy(query)

\* line 110: not query or not query.strip()
EmptyQuery(query) == Falsy(query) \/ Strip(query) = <<>>

\* lines 179-197, for one order of the fused list
Response(call, mem, resolved_target, reformulated, keywords, faiss_results, es_docs, ranking) ==
    With(Take(ranking, call.top_k), LAMBDA matches :
      With(add_turn(mem, call.session_id, "assistant",
                    resolved_target \o <<":", NumStr[Len(matches)], " resultats">>),
           LAMBDA mem2 :
             [ret |->
                 [target |-> resolved_target,
                  query |-> call.query,
                  reformulated |-> reformulated,
                  keywords |-> keywords,
                  matches |-> matches,
                  top_k |-> call.top_k,
                  sources |->
                     [faiss |-> Take(faiss_results, call.top_k),
                      es |-> [i \in DOMAIN Take(es_docs, call.top_k) |->
                                [_id |-> StrOf(es_docs[i]._id),
                                 _score |-> es_docs[i]._score]]]]
                 @@ (IF Falsy(call.session_id) THEN <<>>
                     ELSE [history_len |-> Len(get_history(mem2, call.session_id))]),
              memory |-> mem2]))

\* ask(query, session_id, top_k, target, context_text): the results it can
\* have on the two stores, with the collaborators behaving as llm, how, es
AskResults(cands, jobs, mem, call, llm, how, es, ties) ==
    IF EmptyQuery(call.query)
    THEN {AskResult([error |-> <<"Requete vide">>], mem, 0, {}, {}, <<>>)}
    ELSE
    LET mem1 == add_turn(mem, call.session_id, "user", call.query)
        resolved_target == _detect_target(call.query, call.target)
        keywords == _extract_keywords(call.query)
        reformulated == IF llm = "ok" THEN Reformulation
                        ELSE IF llm = "empty" THEN <<>> ELSE None
        enriched == Enriched(call.query, reformulated, keywords, call.context_text)
        st == IF resolved_target = <<"jobs">> THEN jobs ELSE cands
        index_name == IF resolved_target = <<"jobs">> THEN <<"job_offers">>
                      ELSE <<"candidates">>
        raised == (IF llm = "raise" THEN {"rewriter"} ELSE {})
                  \cup (IF es.st = "raise" THEN {"lexical"} ELSE {})
        es_docs == IF es.st = "ok" THEN es.hits ELSE <<>>
        rewriter == IF llm = "disabled" THEN {} ELSE {"rewriter"}
        lexical == IF es.st = "disabled" THEN {} ELSE {"lexical"}
    IN  IF how = "raise"
        THEN {AskResult(ErrorDict(<<"embedding">>), mem1, 1,
                        (raised \ {"lexical"}) \cup {"embedding"},
                        rewriter \cup {"embedding"}, enriched)}
        ELSE IF SearchRaises(st, Embedding(enriched, how))
        THEN {AskResult(ErrorDict(<<"store">>), mem1, 1,
                        (raised \ {"lexical"}) \cup {"store"},
                        rewriter \cup {"embedding", "store"}, enriched)}
        ELSE LET faiss_results == SearchOp(st, index_name, Embedding(enriched, how),
                                           call.top_k, ties)
             IN  {With(Response(call, mem1, resolved_target, reformulated, keywords,
                                faiss_results, es_docs, ranking),
                       LAMBDA r : AskResult(r.ret, r.memory, 1, raised,
                                            rewriter \cup lexical
                                                \cup {"embedding", "store"},
                                            enriched)) :
                  ranking \in FusedRankings(FaissMap(faiss_results), EsMap(es_docs))}

\* the turns kept for a session
MaxTurns == 4

Ask(call, llm, how, es, ties) ==
    /\ alive
    /\ \/ Falsy(call.session_id)
       \/ Len(get_history(memory, call.session_id)) + 2 <= MaxTurns
    /\ \E r \in AskResults(Mem, job_offers_store, memory, call, llm, how, es, ties) :
          /\ memory' = r.memory
          /\ svc' = [op |-> "ask", arg |-> call, ret |-> r.ret, embeds |-> r.embeds,
                     err |-> r.err, batched |-> <<>>, called |-> r.called,
                     world |-> [llm |-> llm, how |-> how, es |-> es, ties |-> ties]]
    /\ last' = Call("ask", "returned")
    /\ UNCHANGED <<index, id_to_index, index_to_id, alive, diskIndex, diskMap,
                   faults, th, begun, job_offers_store, instances>>

\* index_job_offer(job_id, job_data)
IndexJobOfferOp(st, job_id, job_data, how) ==
    IF job_data.raises
    THEN ServiceResult(FALSE, 0, "projection", NoUpsert(st))
    ELSE With(prepare_job_offer_text(job_data), LAMBDA text :
            IF Strip(text) = <<>>
            THEN ServiceResult(FALSE, 0, "none", NoUpsert(st))
            ELSE IF how = "raise"
            THEN ServiceResult(FALSE, 1, "embedding", NoUpsert(st))
            ELSE With(UpsertOp(st, <<"job_offers">>, <<job_id>>,
                               <<Embedding(text, how)>>),
                      LAMBDA u :
                        IF u.out = "raised"
                        THEN ServiceResult(FALSE, 1, "store", u)
                        ELSE ServiceResult(TRUE, 1, "none", u)))

\* the job offers store is on files of its own, written by the code of save
IndexJobOffer(job_id, job_data, how) ==
    \E r \in {IndexJobOfferOp(job_offers_store, job_id, job_data, how)} :
        /\ alive
        /\ ntotal(r.up.st) <= MaxSlots
        /\ job_offers_store' = r.up.st
        /\ Served("index_job_offer", <<job_id>>, r, <<>>)
        /\ UNCHANGED <<index, id_to_index, index_to_id, alive, diskIndex, diskMap,
                       faults, th, begun, memory, instances>>

\* the queries: empty, blank, one character, a job term, a stop word and a
\* candidate term, a candidate term and a job term
AgentQueries ==
    {<<>>, <<" ">>, <<"x">>, <<"j", "o", "b", " ", "x">>,
     <<"U", "n", " ", "p", "r", "o", "f", "i", "l">>,
     <<"t", "a", "l", "e", "n", "t", " ", "J", "o", "b">>}

\* the calls of ask without session
AskCalls ==
    {[query |-> q, session_id |-> None, top_k |-> 2, target |-> None,
      context_text |-> None] : q \in AgentQueries}
    \cup {[query |-> <<"x">>, session_id |-> None, top_k |-> 1,
           target |-> <<"candidates">>, context_text |-> <<"y">>],
          [query |-> <<"x">>, session_id |-> None, top_k |-> 2,
           target |-> <<"candidates">>, context_text |-> None],
          [query |-> <<"x">>, session_id |-> None, top_k |-> 2,
           target |-> <<"people">>, context_text |-> None]}

\* the calls of ask of two sessions
SessionCalls ==
    {[query |-> q, session_id |-> sid, top_k |-> 1, target |-> <<"candidates">>,
      context_text |-> None] : q \in {<<" ">>, <<"x">>}, sid \in {<<"s">>, <<"t">>}}
    \cup {[query |-> <<"x">>, session_id |-> None, top_k |-> 1,
           target |-> <<"candidates">>, context_text |-> None]}

\* the entities the candidates store of the agent holds
AgentCorpus ==
    {[id |-> <<"a">>, data |-> [headline |-> <<"x">>, summary |-> <<>>,
                               skills |-> <<>>, raises |-> FALSE]],
     [id |-> <<"b">>, data |-> [headline |-> <<>>, summary |-> <<>>,
                               skills |-> <<[name |-> <<"y">>]>>,
                               raises |-> FALSE]]}

\* the collaborators of one call of ask: all answering, or one of them not
\* answering, or the rewriter and the lexical engine both raising
AllAnswer ==
    [llm |-> "ok", how |-> "ok", ties |-> "ascending",
     es |-> CHOOSE e \in EsOutcomes : Len(e.hits) = 3]

AskWorlds ==
    {[AllAnswer EXCEPT !.llm = x] : x \in LlmOutcomes}
    \cup {[AllAnswer EXCEPT !.how = x] : x \in EmbedOutcomes}
    \cup {[AllAnswer EXCEPT !.es = x] : x \in EsOutcomes}
    \cup {[AllAnswer EXCEPT !.ties = x] : x \in TieOrders}
    \cup {[AllAnswer EXCEPT !.llm = "raise",
                            !.es = CHOOSE e \in EsOutcomes : e.st = "raise"]}

\* a batch that names candidate a twice, with two texts
RepeatedBatch ==
    <<[id |-> <<"a">>, data |-> [headline |-> <<"x">>, summary |-> <<>>,
                                skills |-> <<>>, raises |-> FALSE]],
      [id |-> <<"a">>, data |-> [headline |-> <<>>, summary |-> <<>>,
                                skills |-> <<[name |-> <<"y">>]>>,
                                raises |-> FALSE]]>>

NextAgent ==
    \/ \E c \in AgentCorpus : IndexCandidate(c.id, c.data, "ok")
    \/ BatchIndexCandidates(RepeatedBatch, "ok")
    \/ \E d \in {j \in JobDatas : ~j.raises /\ j.title = <<"x">>} :
          IndexJobOffer(<<"j">>, d, "ok")
    \/ \E call \in AskCalls, w \in AskWorlds : Ask(call, w.llm, w.how, w.es, w.ties)

SpecAgent == Init /\ [][NextAgent]_vars

\* the collaborators of a call of ask in a session: all answering, or the
\* embedding provider raising or returning a vector of another dimension
SessionWorlds == {[AllAnswer EXCEPT !.how = x] : x \in EmbedOutcomes}

NextSessions ==
    \/ \E c \in AgentCorpus : IndexCandidate(c.id, c.data, "ok")
    \/ \E call \in SessionCalls, w \in SessionWorlds :
          Ask(call, w.llm, w.how, w.es, w.ties)

SpecSessions == Init /\ [][NextSessions]_vars

----------------------------------------------------------------------------
(* Service objects built per signal and per request.  get_matching_service
   (signals.py) and MatchingViewSet._init_matching_service build a new
   MatchingService on the same two index paths each time, and each
   FAISSVectorStore reads the files once, in __init__.  Nothing locks the
   files, so the calls of two objects interleave; a step is the
   construction of an object, or index_candidate up to the first file
   write of save(), or the second file write. *)

\* the in-memory candidates store of service object i
StoreOf(i) == instances[i].st

\* MatchingService(candidates_index_path, job_offers_index_path): the
\* candidates store is loaded from the shared files
NewInstance(i) ==
    /\ instances[i].pc \in {"none", "done"}
    /\ instances' = [instances EXCEPT ![i] =
                        [pc |-> "loaded", st |-> LoadStore(diskIndex, diskMap),
                         id |-> <<>>, ret |-> FALSE]]
    /\ UNCHANGED <<index, id_to_index, index_to_id, alive, diskIndex, diskMap,
                   faults, last, th, begun, svc, memory, job_offers_store>>

\* index_candidate on object i, up to faiss.write_index in save(); a call
\* that does not reach save() returns False here
InstanceIndexCandidate(i, candidate_id, candidate_data, how) ==
    \E r \in {IndexCandidateOp(StoreOf(i), candidate_id, candidate_data, how)} :
        /\ instances[i].pc = "loaded"
        /\ ntotal(r.up.st) <= MaxSlots
        /\ IF r.up.out = "save"
           THEN /\ diskIndex' = WrittenIndexFile(r.up.st)
                /\ instances' = [instances EXCEPT ![i] =
                                    [pc |-> "indexed", st |-> r.up.st,
                                     id |-> candidate_id, ret |-> FALSE]]
           ELSE /\ UNCHANGED diskIndex
                /\ instances' = [instances EXCEPT ![i] =
                                    [pc |-> "done", st |-> r.up.st,
                                     id |-> candidate_id, ret |-> r.ret]]
        /\ UNCHANGED <<index, id_to_index, index_to_id, alive, diskMap, faults,
                       last, th, begun, svc, memory, job_offers_store>>

\* the rest of save() on object i: _save_mappings, then upsert and
\* index_candidate return
InstanceSaveMappings(i) ==
    /\ instances[i].pc = "indexed"
    /\ diskMap' = WrittenMapFile(StoreOf(i))
    /\ instances' = [instances EXCEPT ![i].pc = "done", ![i].ret = TRUE]
    /\ UNCHANGED <<index, id_to_index, index_to_id, alive, diskIndex, faults,
                   last, th, begun, svc, memory, job_offers_store>>

\* the candidates each object is asked to index: the two objects never
\* get the same ID
InstanceCorpus ==
    [i1 |-> {<<"a">>, <<"c">>}, i2 |-> {<<"b">>}]

InstanceData ==
    [headline |-> <<"x">>, summary |-> <<>>, skills |-> <<>>, raises |-> FALSE]

NextInstances ==
    \/ \E i \in Instances : NewInstance(i)
    \/ \E i \in Instances, how \in {"ok", "raise"} :
          \E id \in InstanceCorpus[i] : InstanceIndexCandidate(i, id, InstanceData, how)
    \/ \E i \in Instances : InstanceSaveMappings(i)

SpecInstances == Init /\ [][NextInstances]_vars

----------------------------------------------------------------------------
(* Calls running in threads of one process, on the one store object.  The
   store takes no lock, so the statements of two calls interleave.  A step
   is one statement or one loop iteration of the code. *)

AllIdle == \A t \in DOMAIN th : th[t].pc = "idle"

\* thread t goes on as record r
Goto(t, r) == th' = [th EXCEPT ![t] = r]

NoFileStep ==
    UNCHANGED <<alive, diskIndex, diskMap, faults, last, begun, svc, memory, job_offers_store, instances>>

NoMemStep == UNCHANGED <<index, id_to_index, index_to_id>>

\* thread t is given a call; the first such call fixes begun
Start(t, r) ==
    /\ alive
    /\ th[t].pc = "idle"
    /\ Goto(t, r)
    /\ begun' = IF AllIdle THEN Snapshot(Mem, diskIndex, diskMap) ELSE begun
    /\ NoMemStep
    /\ UNCHANGED <<alive, diskIndex, diskMap, faults, last, svc, memory, job_offers_store, instances>>

StartUpsert(t, index_name, ids, vectors) ==
    Start(t, [IdleThread EXCEPT !.pc = "u_check", !.op = "upsert",
                                !.name = index_name, !.ids = ids, !.vecs = vectors])

StartDelete(t, index_name, ids) ==
    Start(t, [IdleThread EXCEPT !.pc = "d_check", !.op = "delete",
                                !.name = index_name, !.ids = ids])

StartSearch(t, index_name, vector, top_k) ==
    Start(t, [IdleThread EXCEPT !.pc = "s_check", !.op = "search",
                                !.name = index_name, !.vecs = <<vector>>,
                                !.k = top_k])

StartGetStats(t) ==
    Start(t, [IdleThread EXCEPT !.pc = "g_total", !.op = "get_stats"])

\* the call of thread t ends
Done(r, out) == [r EXCEPT !.pc = "done", !.out = out]

\* delete returns: to its caller, or into upsert after line 108
AfterDelete(r) ==
    IF r.op = "upsert" THEN [r EXCEPT !.pc = "u_ntotal"] ELSE Done(r, "returned")

\* upsert, lines 90-105: the checks and the normalisation
UCheck(t) ==
    /\ th[t].pc = "u_check"
    /\ Goto(t, IF th[t].ids = <<>> \/ th[t].vecs = <<>>
               THEN Done(th[t], "noop")
               ELSE IF Len(th[t].ids) # Len(th[t].vecs) \/ Ragged(th[t].vecs)
               THEN Done(th[t], "raised")
               ELSE [th[t] EXCEPT !.pc = "d_check"])
    /\ NoMemStep /\ NoFileStep

\* delete, lines 168-172
DCheck(t) ==
    /\ th[t].pc = "d_check"
    /\ Goto(t, IF th[t].ids = <<>>
               THEN AfterDelete(th[t])
               ELSE [th[t] EXCEPT !.pc = "d_mark", !.i = 1, !.rm = <<>>])
    /\ NoMemStep /\ NoFileStep

\* delete, lines 173-181: one iteration of the marking loop, or its end
DMark(t) ==
    /\ th[t].pc = "d_mark"
    /\ IF th[t].i > Len(th[t].ids)
       THEN /\ Goto(t, IF th[t].rm # <<>>
                       THEN [th[t] EXCEPT !.pc = "r_read"]
                       ELSE AfterDelete(th[t]))
            /\ NoMemStep
       ELSE \E m \in {MarkLoop(Mem, th[t].name, <<th[t].ids[th[t].i]>>, 1,
                               th[t].rm)} :
               /\ SetMem(m.st)
               /\ Goto(t, [th[t] EXCEPT !.i = th[t].i + 1,
                                        !.rm = m.indices_to_remove])
    /\ NoFileStep

\* _rebuild_index_without_indices, lines 194-202: the vectors and the
\* mappings that stay are read out of the store
RRead(t) ==
    /\ th[t].pc = "r_read"
    /\ \E r \in {RebuildLoop(Mem, th[t].rm, 0, <<>>, EmptyDict)} :
          Goto(t, [th[t] EXCEPT !.pc = "r_index", !.av = r.all_vectors,
                                !.nm = r.new_mappings])
    /\ NoMemStep /\ NoFileStep

\* lines 206-209 or 216: self.index = the new index
RIndex(t) ==
    /\ th[t].pc = "r_index"
    /\ index' = th[t].av
    /\ Goto(t, [th[t] EXCEPT !.pc = "r_index_to_id"])
    /\ UNCHANGED <<id_to_index, index_to_id>>
    /\ NoFileStep

\* line 212 or 217: self.index_to_id = the new mappings
RIndexToId(t) ==
    /\ th[t].pc = "r_index_to_id"
    /\ index_to_id' = (IF th[t].av # <<>> THEN th[t].nm ELSE EmptyDict)
    /\ Goto(t, [th[t] EXCEPT !.pc = "r_id_to_index"])
    /\ UNCHANGED <<index, id_to_index>>
    /\ NoFileStep

\* line 213 or 218: self.id_to_index = the inverted mappings
RIdToIndex(t) ==
    /\ th[t].pc = "r_id_to_index"
    /\ id_to_index' = (IF th[t].av # <<>> THEN InvertMappings(th[t].nm)
                       ELSE EmptyDict)
    /\ Goto(t, AfterDelete(th[t]))
    /\ UNCHANGED <<index, index_to_id>>
    /\ NoFileStep

\* upsert, line 111: start_idx = self.index.ntotal
UNtotal(t) ==
    /\ th[t].pc = "u_ntotal"
    /\ Goto(t, [th[t] EXCEPT !.pc = "u_add", !.start = ntotal(Mem)])
    /\ NoMemStep /\ NoFileStep

\* upsert, line 112: self.index.add(vectors_array)
UAdd(t) ==
    /\ th[t].pc = "u_add"
    /\ IF \E i \in DOMAIN th[t].vecs : Len(th[t].vecs[i]) # dimension
       THEN /\ Goto(t, Done(th[t], "raised"))
            /\ NoMemStep
       ELSE /\ index' = index \o AddedRows(th[t].name, th[t].ids, th[t].vecs)
            /\ Goto(t, [th[t] EXCEPT !.pc = "u_map", !.i = 1])
            /\ UNCHANGED <<id_to_index, index_to_id>>
    /\ NoFileStep

\* upsert, lines 115-119: one iteration of the mapping loop, or its end
UMap(t) ==
    /\ th[t].pc = "u_map"
    /\ IF th[t].i > Len(th[t].ids)
       THEN /\ Goto(t, [th[t] EXCEPT !.pc = "u_write_index"])
            /\ NoMemStep
       ELSE /\ SetMem(MapLoop(Mem, th[t].name, <<th[t].ids[th[t].i]>>,
                              th[t].start + (th[t].i - 1), 1))
            /\ Goto(t, [th[t] EXCEPT !.i = th[t].i + 1])
    /\ NoFileStep

\* save, line 223: faiss.write_index(self.index, self.index_path)
UWriteIndex(t) ==
    /\ th[t].pc = "u_write_index"
    /\ diskIndex' = WrittenIndexFile(Mem)
    /\ Goto(t, [th[t] EXCEPT !.pc = "u_write_map"])
    /\ NoMemStep
    /\ UNCHANGED <<alive, diskMap, faults, last, begun, svc, memory, job_offers_store, instances>>

\* _save_mappings, lines 71-76, and the return of save and of upsert
UWriteMap(t) ==
    /\ th[t].pc = "u_write_map"
    /\ diskMap' = WrittenMapFile(Mem)
    /\ Goto(t, Done(th[t], "returned"))
    /\ NoMemStep
    /\ UNCHANGED <<alive, diskIndex, faults, last, begun, svc, memory, job_offers_store, instances>>

\* search, lines 137-138
SCheck(t) ==
    /\ th[t].pc = "s_check"
    /\ Goto(t, IF ntotal(Mem) = 0
               THEN [Done(th[t], "returned") EXCEPT !.res = <<>>]
               ELSE [th[t] EXCEPT !.pc = "s_search"])
    /\ NoMemStep /\ NoFileStep

\* search, lines 141-148: the query is normalised and self.index.search
\* returns the scores and the slots
SSearch(t) ==
    /\ th[t].pc = "s_search"
    /\ \E scores \in {ScoresOf(Mem, th[t].vecs[1])}, ties \in TieOrders :
          Goto(t, [th[t] EXCEPT
                     !.pc = "s_loop",
                     !.scores = scores,
                     !.hits = TopSlots(ties, scores, Min2(th[t].k, ntotal(Mem)),
                                       DOMAIN scores)])
    /\ NoMemStep /\ NoFileStep

\* search, lines 150-159: the hits are turned into (doc_id, score) pairs
SLoop(t) ==
    /\ th[t].pc = "s_loop"
    /\ Goto(t, [Done(th[t], "returned") EXCEPT
                   !.res = ResultLoop(Mem, th[t].name, th[t].scores,
                                      th[t].hits, 1)])
    /\ NoMemStep /\ NoFileStep

\* get_stats, line 237: 'total_vectors': self.index.ntotal
GTotal(t) ==
    /\ th[t].pc = "g_total"
    /\ Goto(t, [th[t] EXCEPT !.pc = "g_mapped", !.start = ntotal(Mem)])
    /\ NoMemStep /\ NoFileStep

\* get_stats, line 239: 'mapped_ids': len(self.id_to_index)
GMapped(t) ==
    /\ th[t].pc = "g_mapped"
    /\ Goto(t, [Done(th[t], "returned") EXCEPT
                   !.res = [total_vectors |-> th[t].start,
                            mapped_ids |-> Cardinality(DOMAIN id_to_index)]])
    /\ NoMemStep /\ NoFileStep

\* the steps of a thread that runs upsert or delete
MutatorStep(t) ==
    \/ UCheck(t)
    \/ DCheck(t)
    \/ DMark(t)
    \/ RRead(t)
    \/ RIndex(t)
    \/ RIndexToId(t)
    \/ RIdToIndex(t)
    \/ UNtotal(t)
    \/ UAdd(t)
    \/ UMap(t)
    \/ UWriteIndex(t)
    \/ UWriteMap(t)

\* the steps of a thread that runs search or get_stats
ReaderStep(t) ==
    \/ SCheck(t)
    \/ SSearch(t)
    \/ SLoop(t)
    \/ GTotal(t)
    \/ GMapped(t)

\* the order the entities are first indexed in, before any thread runs
PopulateOrder == <<<<"a">>, <<"b">>, <<"c">>>>

\* upsert called for the next entity while no thread runs
Populate(index_name) ==
    /\ AllIdle
    /\ ntotal(Mem) < Len(PopulateOrder)
    /\ \E v \in EmbeddingsOf(PopulateOrder[ntotal(Mem) + 1]) :
          Upsert(index_name, <<PopulateOrder[ntotal(Mem) + 1]>>, <<v>>, "ok")

\* thread t is given an upsert or a delete of one entity
StartMutator(t) ==
    \/ \E n \in IndexNames, d \in DocIds :
          \E v \in EmbeddingsOf(d) : StartUpsert(t, n, <<d>>, <<v>>)
    \/ \E n \in IndexNames, d \in DocIds : StartDelete(t, n, <<d>>)

\* two threads that each make one upsert or delete
NextConc ==
    \/ \E n \in IndexNames : Populate(n)
    \/ \E t \in Mutators : StartMutator(t)
    \/ \E t \in Mutators : MutatorStep(t)

SpecConc == Init /\ [][NextConc]_vars

\* one thread that makes an upsert or a delete, and one that makes a search
\* or a get_stats
NextRead ==
    \/ \E n \in IndexNames : Populate(n)
    \/ StartMutator("t1")
    \/ \E n \in IndexNames, q \in Vectors, k \in 1..MaxSlots :
          StartSearch(Reader, n, q, k)
    \/ StartGetStats(Reader)
    \/ MutatorStep("t1")
    \/ ReaderStep(Reader)

SpecRead == Init /\ [][NextRead]_vars

----------------------------------------------------------------------------
(* Properties of the sequential specification *)

\* the in-memory store after the step
MemNext ==
    [index |-> index', id_to_index |-> id_to_index', index_to_id |-> index_to_id']

\* the query vectors and the values of top_k searches are made with
Queries == Vectors

TopKs == 1..MaxSlots

\* some search on collection index_name of store st returns doc_id
Returned(st, index_name, doc_id) ==
    \E q \in Queries, k \in TopKs, ties \in TieOrders :
        \E i \in DOMAIN SearchOp(st, index_name, q, k, ties) :
            SearchOp(st, index_name, q, k, ties)[i].doc_id = doc_id

\* C1: in every state reached by upsert and delete calls (an ID may be
\* repeated in an ids list) the occupied slots 0..ntotal-1 are exactly the
\* keys of index_to_id, id_to_index and index_to_id are inverse of each
\* other, and get_stats reports total_vectors equal to mapped_ids.
C1_SlotsAreMappingKeys ==
    /\ DOMAIN index_to_id = 0..(ntotal(Mem) - 1)
    /\ \A f \in DOMAIN id_to_index :
          id_to_index[f] \in DOMAIN index_to_id /\ index_to_id[id_to_index[f]] = f
    /\ \A k \in DOMAIN index_to_id :
          index_to_id[k] \in DOMAIN id_to_index /\ id_to_index[index_to_id[k]] = k
    /\ GetStatsOp(Mem).total_vectors = GetStatsOp(Mem).mapped_ids

\* C2: after delete(index_name, ids) returns, no search on that collection
\* returns an ID of ids, and an ID that no search returns stays so until an
\* upsert names it.
C2_DeletedIdsNotReturned ==
    [][/\ \A n \in IndexNames, ids \in IdLists :
            Delete(n, ids) =>
                \A i \in DOMAIN ids : ~Returned(MemNext, n, ids[i])
       /\ \A n \in IndexNames, d \in DocIds :
            (~Returned(Mem, n, d) /\ Returned(MemNext, n, d)) =>
                \E ids \in UpsertIdLists :
                    /\ \E i \in DOMAIN ids : ids[i] = d
                    /\ \E vs \in VecListsFor(ids) : Upsert(n, ids, vs, "ok")
      ]_vars

\* the slots of st that index_to_id gives to full_id
SlotsOf(st, full_id) ==
    {k \in DOMAIN st.index_to_id : st.index_to_id[k] = full_id}

\* C3: an upsert whose IDs are all present replaces them: the number of
\* stored vectors and the set of IDs are unchanged, each ID of the call is
\* mapped to exactly one slot, which holds a normalised vector of the call,
\* and every score a search returns for the ID is computed from that vector.
C3_UpsertReplaces ==
    [][\A n \in IndexNames, ids \in UpsertIdLists :
         \A vs \in VecListsFor(ids) :
            (/\ Upsert(n, ids, vs, "ok")
             /\ last'.out = "returned"
             /\ \A i \in DOMAIN ids : FullId(n, ids[i]) \in DOMAIN id_to_index)
            =>
            /\ ntotal(MemNext) = ntotal(Mem)
            /\ DOMAIN id_to_index' = DOMAIN id_to_index
            /\ \A i \in DOMAIN ids :
                 /\ SlotsOf(MemNext, FullId(n, ids[i]))
                        = {id_to_index'[FullId(n, ids[i])]}
                 /\ \E j \in DOMAIN ids :
                      /\ ids[j] = ids[i]
                      /\ index'[id_to_index'[FullId(n, ids[i])] + 1].v
                            = Normalize(vs[j])
                 /\ \A q \in Queries, k \in TopKs, ties \in TieOrders :
                      \A x \in DOMAIN SearchOp(MemNext, n, q, k, ties) :
                         SearchOp(MemNext, n, q, k, ties)[x].doc_id = ids[i] =>
                            SearchOp(MemNext, n, q, k, ties)[x].score
                               = Score(MemNext, id_to_index'[FullId(n, ids[i])],
                                       NormalizedInput[q])
      ]_vars

\* C4: an upsert whose non-empty lists differ in length, or one of whose
\* vectors has not the index dimension, raises and changes nothing: the
\* index, both dictionaries and both files are as before the call.  (A call
\* with an empty list returns at once and is not one of these.)
C4_InvalidUpsertChangesNothing ==
    [][\A n \in IndexNames, ids \in UpsertIdLists :
         \A vs \in VecListsFor(ids) :
            (/\ Upsert(n, ids, vs, "ok")
             /\ ids # <<>> /\ vs # <<>>
             /\ \/ Len(ids) # Len(vs)
                \/ \E i \in DOMAIN vs : Len(vs[i]) # dimension)
            =>
            /\ last'.out = "raised"
            /\ MemNext = Mem
            /\ diskIndex' = diskIndex /\ diskMap' = diskMap
      ]_vars

\* the full IDs of store st that delete(index_name, ids) does not name
Survivors(st, index_name, ids) ==
    {f \in DOMAIN st.id_to_index :
        \A i \in DOMAIN ids : f # FullId(index_name, ids[i])}

\* the results of a search that are not for an ID of ids
RECURSIVE Others(_, _)
Others(results, ids) ==
    IF results = <<>> THEN <<>>
    ELSE IF \E i \in DOMAIN ids : ids[i] = Head(results).doc_id
         THEN Others(Tail(results), ids)
         ELSE <<Head(results)>> \o Others(Tail(results), ids)

\* the slots of st that delete(index_name, ids) removes
RemovedSlots(st, index_name, ids) ==
    {st.id_to_index[f] :
        f \in DOMAIN st.id_to_index \ Survivors(st, index_name, ids)}

\* the rows of st at the slots from slot on that are not removed, in slot order
RECURSIVE KeptRows(_, _, _)
KeptRows(st, removed, slot) ==
    IF slot >= ntotal(st) THEN <<>>
    ELSE (IF slot \in removed THEN <<>> ELSE <<st.index[slot + 1]>>)
            \o KeptRows(st, removed, slot + 1)

\* store d is store st with the IDs of ids deleted and every other ID kept
\* as it was
SurvivorsKept(st, d, index_name, ids) ==
    /\ d.index = KeptRows(st, RemovedSlots(st, index_name, ids), 0)
    /\ DOMAIN d.index_to_id = 0..(ntotal(d) - 1)
    /\ \A f \in Survivors(st, index_name, ids) :
          /\ f \in DOMAIN d.id_to_index
          /\ d.id_to_index[f] \in 0..(ntotal(d) - 1)
          /\ d.index[d.id_to_index[f] + 1] = st.index[st.id_to_index[f] + 1]
          /\ \A g \in Survivors(st, index_name, ids) :
                st.id_to_index[f] < st.id_to_index[g]
                    => d.id_to_index[f] < d.id_to_index[g]
    /\ d # st =>
          \A q \in Queries, ties \in TieOrders :
             Others(SearchOp(d, index_name, q, MaxSlots, ties), ids)
                = Others(SearchOp(st, index_name, q, MaxSlots, ties), ids)

\* C10: whatever delete(index_name, ids) is called in a reachable state,
\* the index it leaves holds the vectors of the slots it does not remove, in
\* their slot order, at the dense slots 0..ntotal-1; every ID the call does
\* not name is still present and mapped to the same vector; these IDs keep
\* their relative slot order; and every search returns them in the same
\* order with the same scores as before.
C10_DeletePreservesSurvivors ==
    \A n \in IndexNames, ids \in IdLists :
        \A d \in {DeleteOp(Mem, n, ids)} : SurvivorsKept(Mem, d, n, ids)

\* a delete has removed an ID and left two IDs with different vectors
C10_Witness ==
    /\ last = Call("delete", "removed")
    /\ Len(index) = 2
    /\ Cardinality(DOMAIN id_to_index) = 2
    /\ \E f, g \in DOMAIN id_to_index :
          index[id_to_index[f] + 1].v # index[id_to_index[g] + 1].v

\* C11: a delete of a non-empty list of IDs none of which is present
\* returns and changes nothing: the index, both dictionaries, what get_stats
\* reports and both files are as before, and the same delete made again on
\* the store it leaves changes nothing either.
C11_DeleteOfAbsentIsNoOp ==
    [][\A n \in IndexNames, ids \in IdLists :
         (/\ ids # <<>>
          /\ \A i \in DOMAIN ids : FullId(n, ids[i]) \notin DOMAIN id_to_index
          /\ Delete(n, ids))
            =>
            /\ last' = Call("delete", "nothing")
            /\ MemNext = Mem
            /\ GetStatsOp(MemNext) = GetStatsOp(Mem)
            /\ diskIndex' = diskIndex /\ diskMap' = diskMap
            /\ DeleteOp(MemNext, n, ids) = MemNext
      ]_vars

\* a delete that found none of its IDs has returned on a store that holds
\* vectors and whose files are written
C11_Witness ==
    /\ last = Call("delete", "nothing")
    /\ index # <<>>
    /\ id_to_index # EmptyDict
    /\ diskIndex.st = "ok" /\ diskMap.st = "ok"

\* the values of top_k that reach beyond the number of stored vectors
SearchKs == 1..(MaxSlots + 1)

\* C12: a search returns at most top_k pairs, in non-increasing score order;
\* slots of equal score are returned lowest slot first; the result is empty
\* when the index is empty; and a top_k larger than the number of stored
\* vectors is clamped to it.
C12_SearchIsRankedAndClamped ==
    \A n \in IndexNames, q \in Queries, k \in SearchKs, ties \in TieOrders :
        \A r \in {SearchOp(Mem, n, q, k, ties)},
           h \in {SearchHits(Mem, q, k, ties)} :
            /\ Len(r) <= k
            /\ \A i, j \in DOMAIN r : i < j => r[i].score >= r[j].score
            /\ \A i, j \in DOMAIN h :
                  (i < j /\ ScoresOf(Mem, q)[h[i]] = ScoresOf(Mem, q)[h[j]])
                      => h[i] < h[j]
            /\ ntotal(Mem) = 0 => r = <<>>
            /\ k > ntotal(Mem) => Len(h) = ntotal(Mem)

\* C13: whatever upsert is called in a reachable state, when it has stored
\* vector vs[i] under ids[i] and no other slot of the index holds a vector of
\* the same direction, every search with query vs[i] and top_k >= 1 returns
\* ids[i] first, with similarity 1 (25 in the fixed point of scores).  Every
\* input vector here is non-zero.
C13_UpsertSearchRoundTrip ==
    \A n \in IndexNames, ids \in UpsertIdLists :
        \A vs \in VecListsFor(ids) :
            \A u \in {UpsertOp(Mem, n, ids, vs)} :
                u.out = "save" =>
                    \A i \in DOMAIN ids :
                       (\A slot \in 0..(ntotal(u.st) - 1) :
                            slot # (ntotal(u.st) - Len(ids)) + (i - 1)
                                => u.st.index[slot + 1].v # NormalizedInput[vs[i]])
                       =>
                       \A k \in TopKs, ties \in TieOrders :
                          \A r \in {SearchOp(u.st, n, vs[i], k, ties)} :
                             /\ r # <<>>
                             /\ r[1] = [doc_id |-> ids[i], score |-> 25]

\* an upsert has returned on a store that holds two vectors of different
\* directions under two IDs
C13_Witness ==
    /\ last = Call("upsert", "returned")
    /\ Len(index) = 2
    /\ Cardinality(DOMAIN id_to_index) = 2
    /\ index[1].v # index[2].v

----------------------------------------------------------------------------
(* Properties of the specification with the files *)

\* store st holds full_id, in either dictionary
Holds(st, full_id) ==
    \/ full_id \in DOMAIN st.id_to_index
    \/ \E k \in DOMAIN st.index_to_id : st.index_to_id[k] = full_id

\* C5: after a delete that removes a present ID returns, called on the
\* resident store (delete_candidate, delete_job_offer) or by a post_delete
\* signal handler, the two files reflect the deletion: a store built from
\* them does not hold the deleted ID.
C5_DeleteIsPersisted ==
    [][\A n \in IndexNames, d \in DiskDocIds :
         ((Delete(n, <<d>>) \/ RemoveOnDelete(n, d)) /\ last'.out = "removed")
            => ~Holds(LoadStore(diskIndex', diskMap'), FullId(n, d))
      ]_vars

\* C6: whenever an upsert that changed the store returns without raising,
\* the two files hold the store it leaves in memory: a store built from the
\* files has the same vectors and the same dictionaries.
C6_UpsertIsWrittenThrough ==
    last = Call("upsert", "returned") => LoadStore(diskIndex, diskMap) = Mem

\* C7: a store loaded after a crash between the write of the index file and
\* the write of the mapping file returns, in any search, only pairs (ID,
\* score) whose score is that of a vector upserted under that ID.
C7_NoStaleMappingAfterCrash ==
    last = Call("load", "after_crash") =>
        \A n \in IndexNames, q \in Queries, k \in TopKs, ties \in TieOrders :
            \A i \in DOMAIN SearchOp(Mem, n, q, k, ties) :
                \E slot \in 0..(ntotal(Mem) - 1) :
                    /\ index[slot + 1].by
                          = FullId(n, SearchOp(Mem, n, q, k, ties)[i].doc_id)
                    /\ Score(Mem, slot, NormalizedInput[q])
                          = SearchOp(Mem, n, q, k, ties)[i].score

\* C14: a store built while the index file exists and cannot be read is
\* built without an exception and is empty (no vector, no mapped ID, every
\* search empty), whatever the mapping file holds; upsert and delete then do
\* what they do on a new store.
C14_UnreadableIndexLoadsEmpty ==
    [][(Load /\ diskIndex.st = "corrupt")
         =>
         /\ alive' /\ last'.op = "load"
         /\ MemNext = EmptyStore
         /\ GetStatsOp(MemNext) = [total_vectors |-> 0, mapped_ids |-> 0]
         /\ \A n \in IndexNames, q \in Queries, k \in TopKs, ties \in TieOrders :
               SearchOp(MemNext, n, q, k, ties) = <<>>
         /\ \A n \in IndexNames, d \in DiskDocIds :
               /\ DeleteOp(MemNext, n, <<d>>) = EmptyStore
               /\ \A v \in EmbeddingsOf(d) :
                     UpsertOp(MemNext, n, <<d>>, <<v>>)
                        = [out |-> "save",
                           st |-> [index |-> <<[v |-> NormalizedInput[v],
                                                by |-> FullId(n, d),
                                                coll |-> n]>>,
                                   id_to_index |-> DictSet(EmptyDict, FullId(n, d), 0),
                                   index_to_id |-> DictSet(EmptyDict, 0, FullId(n, d))]]
      ]_vars

\* a store has been built beside an unreadable index file and a readable
\* mapping file that names an ID
C14_Witness ==
    /\ last.op = "load"
    /\ diskIndex.st = "corrupt"
    /\ diskMap.st = "ok" /\ diskMap.id_to_index # EmptyDict

\* no slot of st is without a mapped ID, and get_stats counts agree
Matched(st) ==
    /\ \A slot \in 0..(ntotal(st) - 1) :
          /\ slot \in DOMAIN st.index_to_id
          /\ st.index_to_id[slot] \in DOMAIN st.id_to_index
    /\ GetStatsOp(st).total_vectors = GetStatsOp(st).mapped_ids

\* C15: a store built from a readable index file whose mapping file is
\* missing or unreadable has empty mappings and is not mismatched: no slot
\* holds a vector without a mapped ID and total_vectors equals mapped_ids;
\* and an upsert or a delete on a store that is not mismatched leaves it so.
C15_MissingMappingLoadsMatched ==
    [][/\ (Load /\ diskIndex.st = "ok" /\ diskMap.st # "ok")
            => /\ id_to_index' = EmptyDict /\ index_to_id' = EmptyDict
               /\ Matched(MemNext)
       /\ (Matched(Mem) /\ last'.op \in {"upsert", "delete"} /\ alive')
            => Matched(MemNext)
      ]_vars

----------------------------------------------------------------------------
(* Properties of the specification with two collections *)

\* the slots of st whose vector was upserted under index_name
SlotsOfCollection(st, index_name) ==
    {slot \in 0..(ntotal(st) - 1) : st.index[slot + 1].coll = index_name}

\* the vectors st holds for collection index_name, each with the full ID it
\* was upserted under
VectorsOfCollection(st, index_name) ==
    {[v |-> st.index[slot + 1].v, by |-> st.index[slot + 1].by] :
        slot \in SlotsOfCollection(st, index_name)}

\* C16: for collection names A # B, an upsert or a delete of an ID in A
\* leaves every vector of B in the index, under the same full ID and still
\* mapped to it; and a search on A returns only IDs of vectors that were
\* upserted under A.
C16_CollectionsAreIsolated ==
    [][\A A \in CollectionNames : \A B \in CollectionNames \ {A} :
         /\ \A d \in CollectionDocIds :
               ((\E v \in Vectors : Upsert(A, <<d>>, <<v>>, "ok")) \/ Delete(A, <<d>>))
               =>
               /\ VectorsOfCollection(MemNext, B) = VectorsOfCollection(Mem, B)
               /\ \A slot \in SlotsOfCollection(MemNext, B) :
                     /\ slot \in DOMAIN index_to_id'
                     /\ index_to_id'[slot] = index'[slot + 1].by
         /\ \A q \in Queries, k \in TopKs, ties \in TieOrders :
               \A r \in {SearchOp(MemNext, A, q, k, ties)} :
                  \A i \in DOMAIN r :
                     \E slot \in SlotsOfCollection(MemNext, A) :
                        index'[slot + 1].by = FullId(A, r[i].doc_id)
      ]_vars

----------------------------------------------------------------------------
(* Properties of the specification of MatchingService *)

\* a text that is empty or made of whitespace only
IsBlank(text) == \A i \in DOMAIN text : text[i] \in Whitespace

\* the index, the mappings and the two files are what they were
StoreUnchanged == UNCHANGED <<index, id_to_index, index_to_id, diskIndex, diskMap>>

\* C17: when the projected text of the entity is empty or whitespace-only,
\* index_candidate returns False and find_candidates_for_job returns the
\* empty list; neither raises nor calls the embedding provider, and the
\* index, the mappings and the files are left as they were.
C17_BlankTextIsSkipped ==
    /\ [](\A d \in CandidateDatas :
             (~d.raises /\ IsBlank(prepare_candidate_text(d))) =>
                 \A c \in CandidateIds, how \in EmbedOutcomes :
                     IndexCandidateOp(Mem, c, d, how)
                         = ServiceResult(FALSE, 0, "none", NoUpsert(Mem)))
    /\ [](\A d \in JobDatas :
             (~d.raises /\ IsBlank(prepare_job_offer_text(d))) =>
                 \A k \in {1, MaxSlots}, how \in EmbedOutcomes, ties \in TieOrders :
                     FindCandidatesForJobOp(Mem, d, k, how, ties)
                         = ServiceResult(<<>>, 0, "none", NoUpsert(Mem)))
    /\ [][(/\ svc'.op \in {"index_candidate", "find_candidates_for_job"}
            /\ svc'.embeds = 0)
           => StoreUnchanged]_vars

\* index_candidate was called for an entity without text on a store that
\* holds a vector
C17_Witness ==
    /\ svc.op = "index_candidate"
    /\ svc.ret = FALSE
    /\ svc.embeds = 0
    /\ svc.err = "none"
    /\ Len(index) > 0

\* the names of a list of skills that are not empty
NamesGiven(skills) == SelectSeq(SkillNames(skills), LAMBDA name : name # <<>>)

\* the segments of an entity: its fields that are present and not empty,
\* in the documented order; a list of skills without a name is no segment
Segments(fields, label, skills) ==
    SelectSeq(fields, LAMBDA field : field # <<>>)
    \o (IF NamesGiven(skills) # <<>>
        THEN <<<<label, " ">> \o Join(NamesGiven(skills), <<" ">>)>>
        ELSE <<>>)

\* C27: the projection of an entity is its non-empty fields in the
\* documented order, joined by single spaces; a field that is missing or
\* empty, a list of skills whose names are all empty included, adds
\* nothing, so that an entity with a headline only (a title only) projects
\* to that field.
C27_ProjectionHasNoEmptySegment ==
    /\ (svc.op = "index_candidate" /\ ~svc.data.raises) =>
          svc.text = Join(Segments(<<svc.data.headline, svc.data.summary>>,
                                   "Competences:", svc.data.skills),
                          <<" ">>)
    /\ \A d \in CandidateDatas :
          ~d.raises =>
             prepare_candidate_text(d)
                = Join(Segments(<<d.headline, d.summary>>, "Competences:", d.skills),
                       <<" ">>)
    /\ \A d \in JobDatas :
          ~d.raises =>
             prepare_job_offer_text(d)
                = Join(Segments(<<d.title, d.description>>, "Competences requises:",
                                d.required_skills)
                          \o (IF d.is_remote THEN <<<<"Teletravail possible">>>>
                              ELSE <<>>),
                       <<" ">>)

\* the IDs of a list of (id, entity) pairs
InputIds(candidates_data) == {candidates_data[i].id : i \in DOMAIN candidates_data}

\* C18: whatever entities without text, projection errors, embedding
\* failure or upsert failure occur, batch_index_candidates returns a map
\* whose keys are exactly the input IDs, each with a boolean value.
C18_BatchResultHasEveryInputId ==
    \A cs \in BatchInputs, how \in EmbedOutcomes :
        \A r \in {BatchIndexCandidatesOp(Mem, cs, how)} :
            /\ DOMAIN r.ret = InputIds(cs)
            /\ \A x \in DOMAIN r.ret : r.ret[x] \in BOOLEAN

\* a batch of two entities returned, one of them was left out of the
\* embedding call, and the call of the store failed for the other
C18_Witness ==
    /\ svc.op = "batch_index_candidates"
    /\ Len(svc.arg) = 2
    /\ svc.arg[1] # svc.arg[2]
    /\ Len(svc.batched) = 1
    /\ svc.err = "store"
    /\ DOMAIN svc.ret = Range(svc.arg)

\* C19: when the embedding call or the upsert of the batch raises, every
\* ID of the batch is reported False, those with text and those without,
\* and none is reported True; the map is returned.
C19_BatchFailureMarksAllFalse ==
    \A cs \in BatchInputs, how \in EmbedOutcomes :
        \A r \in {BatchIndexCandidatesOp(Mem, cs, how)} :
            r.err \in {"embedding", "store"} =>
                /\ r.batched # <<>>
                /\ \A x \in InputIds(cs) : r.ret[x] = FALSE

\* a batch with two entities with text and one call of upsert that raised
C19_Witness ==
    /\ svc.op = "batch_index_candidates"
    /\ svc.err = "store"
    /\ Len(svc.batched) = 2
    /\ svc.batched[1] # svc.batched[2]
    /\ \A x \in Range(svc.batched) : svc.ret[x] = FALSE

----------------------------------------------------------------------------
(* Properties of the specification of LLMAgentService *)

\* the calls of ask with a query that is not blank
QueryCalls == {call \in AskCalls : ~IsBlank(call.query)}

\* what the caller sees of a result of ask
Seen(results) == {[ret |-> r.ret, memory |-> r.memory] : r \in results}

\* index_*, find_*, delete_* and batch_index_* turn a collaborator that
\* raises into False, the empty list, a boolean and the map
ServiceConvertsErrors ==
    /\ \A c \in CandidateIds, d \in CandidateDatas, how \in EmbedOutcomes :
          \A r \in {IndexCandidateOp(Mem, c, d, how)} :
             /\ r.ret \in BOOLEAN
             /\ r.err # "none" => r.ret = FALSE
    /\ \A d \in JobDatas, how \in EmbedOutcomes :
          /\ \A r \in {IndexJobOfferOp(job_offers_store, <<"j">>, d, how)} :
                /\ r.ret \in BOOLEAN
                /\ r.err # "none" => r.ret = FALSE
          /\ \A k \in {1, MaxSlots}, ties \in TieOrders :
                \A r \in {FindCandidatesForJobOp(Mem, d, k, how, ties)} :
                   r.err # "none" => r.ret = <<>>
    /\ \A c \in CandidateIds :
          \A r \in {DeleteCandidateOp(Mem, c)} :
             /\ r.ret \in BOOLEAN
             /\ FullId(CandidatesIndex, c) \notin DOMAIN id_to_index => r.ret = TRUE
    /\ \A cs \in BatchInputs, how \in EmbedOutcomes :
          \A r \in {BatchIndexCandidatesOp(Mem, cs, how)} :
             DOMAIN r.ret = InputIds(cs)

\* C20 as stated: whichever collaborator raised (the embedding provider,
\* the store, the lexical engine or the rewriter), ask with a query that is
\* not blank returned a dict with an "error" entry, and the operations of
\* MatchingService return False, the empty list, a boolean and the map.
C20_EveryCollaboratorErrorIsReported ==
    /\ ServiceConvertsErrors
    /\ (svc.op = "ask" /\ svc.err # {}) => "error" \in DOMAIN svc.ret

\* C20, amended: no operation raises.  When the embedding provider or the
\* store raises, index_* returns False, find_* the empty list, delete_* a
\* boolean, batch_index_* its map, and ask with a query that is not blank
\* a dict with an "error" entry.  When only the rewriter or the lexical
\* engine raises, ask returns what it returns with that collaborator
\* disabled: its response, without an "error" entry.
C20_ErrorsAreConvertedOrDegraded ==
    /\ ServiceConvertsErrors
    /\ \A call \in QueryCalls, llm \in LlmOutcomes, how \in EmbedOutcomes,
         es \in EsOutcomes, ties \in TieOrders :
          \A r \in AskResults(Mem, job_offers_store, memory, call, llm, how, es, ties) :
             /\ (r.err \cap {"embedding", "store"} # {}) <=> ("error" \in DOMAIN r.ret)
             /\ llm = "raise" =>
                   [ret |-> r.ret, memory |-> r.memory]
                      \in Seen(AskResults(Mem, job_offers_store, memory, call,
                                          "disabled", how, es, ties))
             /\ es.st = "raise" =>
                   [ret |-> r.ret, memory |-> r.memory]
                      \in Seen(AskResults(Mem, job_offers_store, memory, call, llm, how,
                                          [st |-> "disabled", hits |-> <<>>], ties))

\* ask returned matches from a store of two vectors although the rewriter
\* and the lexical engine both raised
C20_Witness ==
    /\ svc.op = "ask"
    /\ svc.err = {"rewriter", "lexical"}
    /\ "error" \notin DOMAIN svc.ret
    /\ Len(svc.ret.matches) = 2

\* the calls of ask with an empty or a blank query, with and without session
BlankCalls ==
    {[query |-> q, session_id |-> sid, top_k |-> 2, target |-> t,
      context_text |-> None] :
        q \in {<<>>, <<" ">>, <<" ", " ">>}, sid \in {None, <<"s">>, <<"t">>},
        t \in {None, <<"candidates">>}}

\* C21: ask with an empty or whitespace-only query returns a dict with an
\* "error" entry and does nothing else: no collaborator is called and the
\* session memory is what it was, with a session identifier or without.
C21_EmptyQueryIsRejected ==
    \A call \in BlankCalls, llm \in LlmOutcomes, how \in EmbedOutcomes,
       es \in EsOutcomes, ties \in TieOrders :
        \A r \in AskResults(Mem, job_offers_store, memory, call, llm, how, es, ties) :
            /\ "error" \in DOMAIN r.ret
            /\ r.called = {}
            /\ r.embeds = 0
            /\ r.memory = memory

\* ask was called with a blank query for session s while the stores hold
\* vectors and another session has a log: session s has no log
C21_Witness ==
    /\ svc.op = "ask"
    /\ svc.arg.query = <<" ">>
    /\ svc.arg.session_id = <<"s">>
    /\ "error" \in DOMAIN svc.ret
    /\ Len(index) > 0
    /\ DOMAIN memory = {<<"t">>}
    /\ Len(memory[<<"t">>]) = 2

\* the hits the lexical engine gave to the fusion
HitsOf(es) == IF es.st = "ok" THEN es.hits ELSE <<>>

\* the ID of a hit, None when it has none
IdOfHit(h) == IF h._id # None THEN h._id ELSE h.src_id

\* the IDs of the vector results and of the lexical results
VectorIds(F) == {F[i].doc_id : i \in DOMAIN F}
LexicalIds(L) == {IdOfHit(L[i]) : i \in DOMAIN L} \ {None}

\* the scores of ID d in the vector results and in the lexical results
VectorScores(F, d) == {F[i].score : i \in {j \in DOMAIN F : F[j].doc_id = d}}
LexicalScores(L, d) == {L[i]._score : i \in {j \in DOMAIN L : IdOfHit(L[j]) = d}}

\* 0.6 v + 0.4 l, v, or 0.4 l, multiplied by 10, for the scores v and l of d
Expected(F, L, d) ==
    IF d \in VectorIds(F) /\ d \in LexicalIds(L)
    THEN {6 * v + 4 * l : v \in VectorScores(F, d), l \in LexicalScores(L, d)}
    ELSE IF d \in VectorIds(F) THEN {10 * v : v \in VectorScores(F, d)}
    ELSE {4 * l : l \in LexicalScores(L, d)}

\* matches m are the fusion of vector results F and lexical results L, cut
\* at top_k
IsFusion(m, F, L, top_k) ==
    /\ \A i \in DOMAIN m :
          /\ m[i].doc_id \in VectorIds(F) \cup LexicalIds(L)
          /\ m[i].score \in Expected(F, L, m[i].doc_id)
    /\ \A i, j \in DOMAIN m : m[i].doc_id = m[j].doc_id => i = j
    /\ \A i, j \in DOMAIN m : i < j => m[i].score >= m[j].score
    /\ Len(m) = Min2(top_k, Cardinality(VectorIds(F) \cup LexicalIds(L)))
    /\ \A d \in (VectorIds(F) \cup LexicalIds(L)) \ {m[i].doc_id : i \in DOMAIN m} :
          \A i \in DOMAIN m : \E e \in Expected(F, L, d) : e <= m[i].score

\* C22: the matches of ask are the IDs of the union of the vector results
\* and the lexical results, each once, with 0.6 v + 0.4 l for an ID in
\* both, v for an ID of the vector results only and 0.4 l for an ID of the
\* lexical results only, by non-increasing fused score, cut at top_k.
C22_FusionFormula ==
    \A call \in QueryCalls, llm \in LlmOutcomes, how \in EmbedOutcomes,
       es \in EsOutcomes, ties \in TieOrders :
        \A r \in AskResults(Mem, job_offers_store, memory, call, llm, how, es, ties) :
            "error" \notin DOMAIN r.ret =>
                IsFusion(r.ret.matches, r.ret.sources.faiss, HitsOf(es), call.top_k)

\* ask returned two of three fused IDs: first one that is in both result
\* lists, then one that is in the vector results only
C22_Witness ==
    /\ svc.op = "ask"
    /\ "error" \notin DOMAIN svc.ret
    /\ Len(svc.ret.sources.faiss) = 2
    /\ Len(svc.ret.sources.es) = 2
    /\ Len(svc.ret.matches) = 2
    /\ svc.ret.matches[1].doc_id \in VectorIds(svc.ret.sources.faiss)
    /\ svc.ret.matches[1].doc_id \in LexicalIds(HitsOf(svc.world.es))
    /\ svc.ret.matches[2].doc_id \in VectorIds(svc.ret.sources.faiss)
    /\ svc.ret.matches[2].doc_id \notin LexicalIds(HitsOf(svc.world.es))

\* the lexical engine: not configured, or raising
NoLexical == {es \in EsOutcomes : es.st # "ok"}

\* matches m are the vector results F: the same IDs with the same scores,
\* in the same order up to the order of equal scores
SameRanking(m, F) ==
    /\ Len(m) = Len(F)
    /\ \E p \in Orderings(DOMAIN F) :
          \A i \in DOMAIN m :
             /\ m[i].doc_id = F[p[i]].doc_id
             /\ m[i].score = 10 * F[p[i]].score
             /\ F[p[i]].score = F[i].score

\* C23: when the lexical engine is not configured or raises, ask reports
\* no error and its matches are the vector results unchanged: the same IDs
\* with the same scores in the same order, up to the order of equal scores.
C23_VectorOnlyRankingUnchanged ==
    \A call \in QueryCalls, llm \in LlmOutcomes, es \in NoLexical, ties \in TieOrders :
        \A r \in AskResults(Mem, job_offers_store, memory, call, llm, "ok", es, ties) :
            /\ "error" \notin DOMAIN r.ret
            /\ SameRanking(r.ret.matches, r.ret.sources.faiss)

\* the matches ask can return
MatchesOf(results) == {r.ret.matches : r \in results}

\* C24: when the rewriter is disabled, raises or returns the empty string,
\* ask gives the embedding provider a text that begins with the original
\* query, runs the vector search and returns its matches with no "error"
\* entry, the same matches in the three cases; the reformulation it
\* reports is None when the rewriter is disabled or raised.
C24_RewriterIsOptional ==
    \A call \in QueryCalls, es \in EsOutcomes, ties \in TieOrders :
        /\ \A llm \in {"disabled", "raise", "empty"} :
              \A r \in AskResults(Mem, job_offers_store, memory, call, llm, "ok", es, ties) :
                 /\ "error" \notin DOMAIN r.ret
                 /\ {"embedding", "store"} \subseteq r.called
                 /\ SubSeq(r.enriched, 1, Len(call.query)) = call.query
                 /\ llm # "empty" => r.ret.reformulated = None
                 /\ IsFusion(r.ret.matches, r.ret.sources.faiss, HitsOf(es), call.top_k)
        /\ \A llm \in {"raise", "empty"} :
              MatchesOf(AskResults(Mem, job_offers_store, memory, call, llm, "ok", es, ties))
                 = MatchesOf(AskResults(Mem, job_offers_store, memory, call,
                                        "disabled", "ok", es, ties))

\* the rewriter returned the empty string and ask returned two matches
C24_Witness ==
    /\ svc.op = "ask"
    /\ svc.world.llm = "empty"
    /\ "error" \notin DOMAIN svc.ret
    /\ svc.ret.reformulated = <<>>
    /\ Len(svc.ret.matches) = 2

\* queries, with the terms each contains
TermQueries ==
    {[query |-> <<"x">>, job |-> FALSE, candidate |-> FALSE],
     [query |-> <<"j", "o", "b", " ", "x">>, job |-> TRUE, candidate |-> FALSE],
     [query |-> <<"J", "o", "b">>, job |-> TRUE, candidate |-> FALSE],
     [query |-> <<"U", "n", " ", "p", "r", "o", "f", "i", "l">>,
      job |-> FALSE, candidate |-> TRUE],
     [query |-> <<"t", "a", "l", "e", "n", "t", " ", "J", "o", "b">>,
      job |-> TRUE, candidate |-> TRUE],
     [query |-> <<"j", "o", "b", " ", "t", "a", "l", "e", "n", "t">>,
      job |-> TRUE, candidate |-> TRUE]}

\* the explicit targets: none, the two valid ones, others
ExplicitTargets == {None, <<>>, <<"jobs">>, <<"candidates">>, <<"people">>, <<"Jobs">>}

\* the target the resolution is to give
ResolvedTarget(tq, explicit_target) ==
    IF explicit_target = <<"jobs">> \/ explicit_target = <<"candidates">>
    THEN explicit_target
    ELSE IF tq.job THEN <<"jobs">>
    ELSE IF tq.candidate THEN <<"candidates">>
    ELSE <<"jobs">>

\* C25: an explicit target "jobs" or "candidates" is the resolved target
\* whatever the query; any other explicit value is ignored, and then a
\* query with a job term resolves to "jobs", with a candidate term or
\* without, a query with candidate terms only to "candidates", and a query
\* with neither to "jobs".  The response of ask carries that target.
C25_TargetResolution ==
    /\ \A tq \in TermQueries, t \in ExplicitTargets :
          _detect_target(tq.query, t) = ResolvedTarget(tq, t)
    /\ (svc.op = "ask" /\ "error" \notin DOMAIN svc.ret) =>
          \A tq \in TermQueries :
             tq.query = svc.arg.query =>
                svc.ret.target = ResolvedTarget(tq, svc.arg.target)

\* ask resolved a query with a candidate term and a job term, and no
\* explicit target, to "jobs"
C25_Witness ==
    /\ svc.op = "ask"
    /\ svc.arg.query = <<"t", "a", "l", "e", "n", "t", " ", "J", "o", "b">>
    /\ svc.arg.target = None
    /\ "error" \notin DOMAIN svc.ret
    /\ svc.ret.target = <<"jobs">>

\* the place of ID d in matches m, Len(m) + 1 when it is not there
Place(m, d) ==
    IF \E i \in DOMAIN m : m[i].doc_id = d
    THEN CHOOSE i \in DOMAIN m : m[i].doc_id = d
    ELSE Len(m) + 1

\* in matches m, ID x comes after ID y, or is cut while y is kept, and its
\* fused score is lower
RankedBelow(m, F, L, x, y) ==
    /\ Place(m, y) <= Len(m)
    /\ Place(m, x) > Place(m, y)
    /\ \A e \in Expected(F, L, x) : e < m[Place(m, y)].score

\* y has no score above the score of x in the list y is in
NoHigher(F, L, x, y) ==
    /\ \A vy \in VectorScores(F, y), vx \in VectorScores(F, x) : vy <= vx
    /\ \A ly \in LexicalScores(L, y), lx \in LexicalScores(L, x) : ly <= lx

\* C28: in the matches of ask, an ID that is in the vector results and in
\* the lexical results is not ranked below an ID that is in one of them
\* only and has no higher score there.
C28_IntersectionHasPriority ==
    \A call \in QueryCalls, llm \in LlmOutcomes, es \in EsOutcomes, ties \in TieOrders :
        \A r \in AskResults(Mem, job_offers_store, memory, call, llm, "ok", es, ties) :
            "error" \notin DOMAIN r.ret =>
                \A x \in VectorIds(r.ret.sources.faiss) \cap LexicalIds(HitsOf(es)) :
                    \A y \in (VectorIds(r.ret.sources.faiss) \cup LexicalIds(HitsOf(es)))
                             \ (VectorIds(r.ret.sources.faiss) \cap LexicalIds(HitsOf(es))) :
                        NoHigher(r.ret.sources.faiss, HitsOf(es), x, y)
                            => ~RankedBelow(r.ret.matches, r.ret.sources.faiss,
                                            HitsOf(es), x, y)

----------------------------------------------------------------------------
(* Properties of the specification of the sessions of LLMAgentService *)

\* the step is a call of ask that returned a response, or one that
\* returned an error
AskAnswered == svc'.op = "ask" /\ last'.op = "ask" /\ "error" \notin DOMAIN svc'.ret
AskFailed == svc'.op = "ask" /\ last'.op = "ask" /\ "error" \in DOMAIN svc'.ret

\* the two turns of an answered call
TurnsOf(response) ==
    <<[role |-> "user", content |-> response.query],
      [role |-> "assistant",
       content |-> response.target
                      \o <<":", NumStr[Len(response.matches)], " resultats">>]>>

\* C26: a call of ask with a session identifier that returns a response
\* appends two turns to the log of that session, the user query and then
\* the assistant summary with the resolved target and the number of
\* matches; history_len is the length of the log; the logs of the other
\* sessions are what they were.  A call without session identifier leaves
\* the memory as it was.
C26_TwoTurnsPerAnsweredCall ==
    [][AskAnswered =>
         IF svc'.arg.session_id = None
         THEN memory' = memory
         ELSE /\ DOMAIN memory' = (DOMAIN memory) \cup {svc'.arg.session_id}
              /\ memory'[svc'.arg.session_id]
                    = get_history(memory, svc'.arg.session_id) \o TurnsOf(svc'.ret)
              /\ svc'.ret.history_len = Len(memory'[svc'.arg.session_id])
              /\ \A o \in (DOMAIN memory) \ {svc'.arg.session_id} :
                    memory'[o] = memory[o]
      ]_vars

\* a second call of session s was answered while session t has a log
C26_Witness ==
    /\ svc.op = "ask"
    /\ svc.arg.session_id = <<"s">>
    /\ "error" \notin DOMAIN svc.ret
    /\ svc.ret.history_len = 4
    /\ Len(svc.ret.matches) = 1
    /\ <<"t">> \in DOMAIN memory

\* a log of user turns each followed by one assistant turn
Alternates(log) ==
    /\ Len(log) % 2 = 0
    /\ \A i \in DOMAIN log :
          log[i].role = IF i % 2 = 1 THEN "user" ELSE "assistant"

\* C30: a call of ask that returns an error result (empty query, embedding
\* failure or store failure) leaves the memory of the sessions as it was
\* before the call, so the log of every session is always an alternation
\* of one user turn followed by one assistant turn
C30_ErrorLeavesMemoryUnchanged ==
    /\ [][AskFailed => memory' = memory]_vars
    /\ [](\A sid \in DOMAIN memory : Alternates(memory[sid]))

----------------------------------------------------------------------------
(* Properties of the specifications with threads *)

\* the snapshot left by the whole call of thread record r made alone on
\* snapshot s
CallAlone(s, r) ==
    IF r.op = "upsert"
    THEN With(UpsertOp(s.mem, r.name, r.ids, r.vecs), LAMBDA u :
            IF u.out = "save"
            THEN Snapshot(u.st, WrittenIndexFile(u.st), WrittenMapFile(u.st))
            ELSE Snapshot(u.st, s.diskIndex, s.diskMap))
    ELSE IF r.op = "delete"
    THEN Snapshot(DeleteOp(s.mem, r.name, r.ids), s.diskIndex, s.diskMap)
    ELSE s

\* C8: when the two threads have made their upsert or delete, the index,
\* the dictionaries and the files are those left by the two calls made one
\* after the other, in one of the two orders.
C8_MutatorsAreSerialized ==
    (th["t1"].pc = "done" /\ th["t2"].pc = "done") =>
        Snapshot(Mem, diskIndex, diskMap)
            \in {CallAlone(CallAlone(begun, th["t1"]), th["t2"]),
                 CallAlone(CallAlone(begun, th["t2"]), th["t1"])}

\* C9: a search that ran beside an upsert or a delete returns only pairs
\* (ID, score) whose score is that of a vector the ID was upserted with, and
\* a get_stats that ran beside one reports total_vectors equal to mapped_ids.
C9_ReaderSeesWholeStates ==
    /\ (th[Reader].pc = "done" /\ th[Reader].op = "search") =>
          \A i \in DOMAIN th[Reader].res :
             \E v \in EmbeddingsOf(th[Reader].res[i].doc_id) :
                th[Reader].res[i].score
                    = Dot(NormalizedInput[th[Reader].vecs[1]], NormalizedInput[v])
    /\ (th[Reader].pc = "done" /\ th[Reader].op = "get_stats") =>
          th[Reader].res.total_vectors = th[Reader].res.mapped_ids


----------------------------------------------------------------------------
(* Properties of the specification of the service objects built per signal
   and per request *)

\* the store a new object would load from the files now
LoadedNow == LoadStore(diskIndex, diskMap)

\* object i has finished index_candidate, which returned True
ReturnedTrue(i) == instances[i].pc = "done" /\ instances[i].ret

\* C29: no successful index update is lost between service objects: when
\* two objects built on the shared files have each loaded, upserted an ID
\* of their own and saved, and both calls returned True, a store loaded
\* from the files afterwards contains both IDs, whatever the interleaving
C29_NoUpdateLostBetweenInstances ==
    (\A i \in Instances : ReturnedTrue(i))
        => \A i \in Instances :
              FullId(CandidatesIndex, instances[i].id)
                  \in DOMAIN LoadedNow.id_to_index

====
